---- MODULE Spec2Model ----
(***************************************************************************)
(* A model of svn2git's history reconstruction core:                       *)
(*   - history_reader.py: the content-addressed object store (svn_object,  *)
(*     svn_blob, svn_tree), the revision tree builder (apply_node and      *)
(*     friends) and the load loop;                                         *)
(*   - svn_dump_reader.py: the record grammar of read_revisions and the    *)
(*     svndiff decoder node_record.apply_delta.                            *)
(*                                                                         *)
(* Python object identity is modelled by an explicit heap: objs is the     *)
(* sequence of all svn_object instances ever constructed, its the sequence *)
(* of all svn_tree.item instances.  A reference is an index, None is 0.    *)
(* A Python dict is a sequence of <<key, value>> pairs in insertion order. *)
(* SHA-1 is modelled as an injective function: the digest of a byte        *)
(* string is the structured value that was fed to the hash.                *)
(***************************************************************************)
EXTENDS Integers, Sequences, FiniteSets, TLC

\* ------------------------------------------------------------------ bounds
\* directory entry names are 1..MaxName (compared like the strings they stand for)
MaxName == 2
\* node paths have 1..MaxDepth components
MaxDepth == 2
\* property keys are 1..MaxKey; the dump's property values are 1..MaxVal
MaxKey == 2
MaxVal == 1
\* the property blocks applied to a reachable object have at most MaxBlock
\* entries with values 1..MaxCheckVal
MaxBlock == 2
MaxCheckVal == 2
\* revision numbers of a dump with property blocks are 0..MaxPropRev
MaxPropRev == 1
\* revision numbers of a dump with gaps are 0..MaxGapRev
MaxGapRev == 3
\* file contents are the byte strings "a", "ab", ... of up to MaxData bytes
MaxData == 1
\* revision numbers in the dump are 0..MaxRevNum
MaxRevNum == 2
\* at most MaxNodes node records per dump revision
MaxNodes == 2
\* at most MaxObjs svn_object instances are constructed in a run
MaxObjs == 7
\* a delta window has at most MaxInstr instructions
MaxInstr == 2
\* a copy from the source view or from new data has length at most MaxCopy
MaxCopy == 2
\* a copy from the target view has length 1 or MaxRepeat
MaxRepeat == 5
\* a delta document has at most MaxWindows windows
MaxWindows == 2
\* a dump file holds at most MaxRecords records
MaxRecords == 6
\* Revision-number values in a dump file are 0..MaxDumpRev, node paths 1..MaxName
MaxDumpRev == 1
\* merged revisions are 1..MaxMergeRev
MaxMergeRev == 3
\* a tree_mergeinfo is set at most MaxMergeSets times
MaxMergeSets == 2
\* SVN revisions the commit graph is built for
MaxCommitRev == 3
\* project_branch_rev objects constructed, the six initial ones included
MaxBranchRevs == 9
\* tree contents of a branch directory, 1 is the empty directory
MaxTree == 3

\* the refname requests of any kind in a run, and the commit ids
MaxRefRequests == 2
MaxSha1 == 2

\* the prepare_commit calls of a run, the blobs hashed for one of them, the
\* deletions of one branch
MaxWorkRevs == 2
MaxHashItems == 1
MaxIndexSeq == 1
\* the work items a run of that size can make
MaxWorkItems == 5 + 7 * MaxWorkRevs + 4 * MaxIndexSeq + 1

\* SVN revisions of a history with deleted branches, and the
\* project_branch_rev objects constructed for it, the six initial ones
\* included
MaxDeletedRev == 2
MaxDeletedBranchRevs == 12
\* SVN revisions of a history in which one branch is recorded, deleted and
\* added again
MaxLookupRev == 4
\* a node record holds at most MaxHeaderLines Text-delta and Prop-delta lines
MaxHeaderLines == 2
\* SVN revisions of a history with merged revisions in svn:mergeinfo, and the
\* project_branch_rev objects constructed for it, the six initial ones
\* included
MaxPickRev == 4
MaxPickBranchRevs == 13
\* SVN revisions of a history with a skipped revision, and the
\* project_branch_rev objects constructed for it, the six initial ones
\* included
MaxSkipRev == 4
MaxSkipBranchRevs == 12
\* the blob objects, the paths and the fingerprints of .gitattributes files
\* of a run that hashes blobs, and its build_stagelist calls
MaxHashBlobs == 2
MaxHashPaths == 2
MaxHashAttrs == 2
MaxStagelists == 3
\* the revisions of a load() with a Git repository, the futures pending in
\* a pool and the ref updates queued
MaxLoadRev == 2
MaxPending == 1
MaxRefQueue == 2

\* the longest text of a variable and the longest pattern
MaxVarText == 2

\* the branch-revs of the branch whose mergeinfo is followed, HEAD included
MaxMergeDeltaRevs == 3

\* the revisions applied to a branch map with nested merge children
MaxOrderRev == 2

VARIABLES
    objs,            \* heap of svn_object instances (svn_tree / svn_blob)
    its,             \* heap of svn_tree.item instances
    obj_dictionary,  \* history_reader.obj_dictionary: svn_sha1 -> object
    revisions,       \* history_reader.revisions: list of history_revision or None
    prev_rev,        \* load(): prev_rev, <<>> is None
    warnings,        \* load(): number of gap warnings printed to stderr
    pc,              \* position of load(): "read", "apply", "done", "failed"
    node_i,          \* apply_revision(): nodes already applied in this revision
    exc              \* the exception that ended load(), "" if none

VARIABLES
    dump,            \* the records dump_record.read has taken from the file so far
    record,          \* read_revisions(): record, <<>> is None
    version_record,  \* read_revisions(): version_record, <<>> is None
    uuid_record,     \* read_revisions(): uuid_record, <<>> is None
    revision,        \* read_revisions(): revision, <<>> is None
    yielded,         \* the revisions the generator has yielded
    rd_pc,           \* position of read_revisions()
    rd_exc           \* the exception that ended read_revisions(), "" if none

hvars == <<objs, its, obj_dictionary, revisions, prev_rev, warnings, pc, node_i, exc>>

VARIABLES
    delta_doc,       \* the svndiff document that node.text_content encodes
    text_content,    \* apply_delta(): node.text_content, a sequence of bytes
    base_text,       \* apply_delta(): base_text, a sequence of bytes
    lz4_module,      \* what 'import lz4' finds: "missing", "no_frame" or "frame"
    fd_pos,          \* apply_delta(): bytes of fd read so far
    target_data,     \* apply_delta(): target_data
    opcode,          \* apply_delta(): the local opcode, <<>> while unbound
    d_pc,            \* position of apply_delta()
    d_exc            \* the exception that ended apply_delta(), "" if none

rvars == <<dump, record, version_record, uuid_record, revision, yielded, rd_pc, rd_exc>>

dvars == <<delta_doc, text_content, base_text, lz4_module, fd_pos, target_data, opcode, d_pc, d_exc>>

VARIABLES
    tree_mergeinfo,  \* the tree_mergeinfo of the branch revision: subpath -> mergeinfo
    self_mergeinfo,  \* its flattened mergeinfo, <<>> before the first build
    prev_mergeinfo,  \* the flattened mergeinfo of the previous revision, <<>> if none
    mergeinfo_diff,  \* the result of get_diff, <<>> before the first call
    merge_sets,      \* number of set_mergeinfo calls so far
    m_pc             \* "tree", "built", "diff" or "normalized"

mvars == <<tree_mergeinfo, self_mergeinfo, prev_mergeinfo, mergeinfo_diff, merge_sets, m_pc>>

VARIABLES
    brevs,           \* every project_branch_rev constructed, in construction order
    branches,        \* branch -> [HEAD, stage, index_seq, revisions, first_revision, finished]
    commits,         \* the commit objects written by git commit-tree: [tree, parents]
    p_rev,           \* the SVN revision being processed, 0 before the first
    p_changed,       \* the branches prepared in this revision
    p_run,           \* the executor is running the work items that can run
    p_pc             \* the last operation: [op, self, add]

pvars == <<brevs, branches, commits, p_rev, p_changed, p_run, p_pc>>

VARIABLES
    all_refs,        \* the path_tree of the refnames in use
    append_to_refs,  \* refname -> sha1: the refs of an earlier run to append
    prune_refs,      \* refname -> sha1: the refs to prune
    ref_updates,     \* the ref writes made: [op, ref, sha1]
    n_requests,      \* the refname requests counted up to MaxRefRequests
    u_pc             \* the last operation: [op, ref, ret]

uvars == <<all_refs, append_to_refs, prune_refs, ref_updates, n_requests, u_pc>>

VARIABLES
    workitems,       \* every dependency_node made for the commits, in construction order
    w_branches,      \* branch -> [HEAD, stage, index_seq]
    log_serializer,  \* project_history_tree.log_serializer
    log_output,      \* the serializers whose buffer is written to the log file, in order
    w_prepared,      \* the prepare_commit calls so far
    w_commits,       \* the branch revisions finalize_commit has returned for, in order
    w_pc             \* the last operation of load(): [op, self]

wvars == <<workitems, w_branches, log_serializer, log_output, w_prepared, w_commits, w_pc>>

VARIABLES
    deleted_revs,    \* project_history_tree.deleted_revs
    deleted_path     \* the path of the last delete, hide or replace node of a directory

xvars == <<deleted_revs, deleted_path>>

VARIABLES
    rev_mergeinfo,     \* project_branch_rev.mergeinfo of each object: the
                       \* merged revisions of the path of the other branch
    cherry_pick_revs,  \* project_branch_rev.cherry_pick_revs of each object
    recreate_merges,   \* branch.recreate_merges.branch_merge
    merge_pc           \* the last mergeinfo difference processed

yvars == <<rev_mergeinfo, cherry_pick_revs, recreate_merges, merge_pc>>

VARIABLES
    props_list,        \* project_branch_rev.props_list of each object, <<>>
                       \* when it is None or empty
    commit_props,      \* the revision properties of each commit made
    revision_log       \* the log message of each revision: 0 - empty

zvars == <<props_list, commit_props, revision_log>>

VARIABLES
    git_sha1,            \* git_blob.git_sha1 of each blob object: <<>> - None,
                         \* <<"str", id>> or <<"async_workitem", n>>
    sha1_map,            \* project_history_tree.sha1_map: key -> id
    prev_sha1_map,       \* project_history_tree.prev_sha1_map: key -> id
    gitattributes_sha1,  \* project_branch.gitattributes_sha1, 0 - None
    hash_work,           \* the work items made for hash_object:
                         \* [data, path, sha1, fmt, git_env, result]
    stagelists,          \* the stagelists built: [branch, git_env, stagelist, staged]
    update_index,        \* the lines stage_changes has written, each with its
                         \* stagelist item and its environment
    g_pc                 \* the last operation: [op, self]

gvars == <<git_sha1, sha1_map, prev_sha1_map, gitattributes_sha1, hash_work, stagelists,
           update_index, g_pc>>

VARIABLES
    l_pc,                   \* the position of project_history_tree.load()
    l_exc,                  \* the exception that has left load(), "" if none
    l_raised_at,            \* the position it was raised at
    l_rev,                  \* the revisions super().load has processed
    target_repo,            \* self.git_repo is not None
    executors,              \* the pools: [shut, pending, cancelled] of the work
                            \* items, futures_executor and write_tree_executor
    git_repo,               \* the Git repository: [queue, refs, commits, shut]
    git_working_directory   \* "none", "made" or "removed"

lvars == <<l_pc, l_exc, l_raised_at, l_rev, target_repo, executors, git_repo,
           git_working_directory>>

VARIABLES
    e_pc,       \* the position of the script: "new", "options", "reader",
                \* "load" or "exited"
    e_script,   \* the script that runs
    e_exc,      \* the exception that has left main(), "" if none
    e_status    \* the exit status, -1 while the script runs

evars == <<e_pc, e_script, e_exc, e_status>>

VARIABLES
    replacement_vars,  \* path_list_config.replacement_vars: the list of each
                       \* variable, <<>> for a variable not in the dictionary
    c_src,             \* the string wildcard_parser was made of
    c_stack,           \* the tokenizers running, the innermost last:
                       \* [items, i, pos, vars_dict]
    c_tokens,          \* the text tokens yielded
    c_pc,              \* "config", "expanding", "done" or "raised"
    c_exc              \* the exception that has left wildcard_parser:
                       \* [type, msg, key], type "" if none

cvars == <<replacement_vars, c_src, c_stack, c_tokens, c_pc, c_exc>>

VARIABLES
    md_mis,       \* heap of mergeinfo objects
    md_tms,       \* heap of tree_mergeinfo objects: paths_dict, key -> mergeinfo object
    md_revs,      \* the branch-revs of the branch, the staging one last:
                  \* [tree_mergeinfo, mergeinfo] of each
    md_src,       \* the branch-rev of each source branch: [rev, tree_mergeinfo, mergeinfo]
    md_merged,    \* the source branches whose branch-rev is_merged_from finds merged
    md_copy_source,  \* the source branch the revision copies the branch from, 0 if none
    md_tree,      \* the svn:mergeinfo found in the tree at the path of no branch
    md_parent,    \* the svn:mergeinfo found in the tree above the branch
    md_prev_tm,   \* prev_tree_mergeinfo of process_merge_delta
    md_prev_mi,   \* prev_mergeinfo of process_merge_delta
    md_diff,      \* mergeinfo_diff of the last pass
    md_pc,        \* "new", "changes", "changed", "loop", "delta" or "staged"
    md_pass       \* the last pass: [n, changed, before], before is the
                  \* previous tree-mergeinfo the pass began with

nvars == <<md_mis, md_tms, md_revs, md_src, md_merged, md_copy_source, md_tree, md_parent, md_prev_tm, md_prev_mi,
           md_diff, md_pc, md_pass>>

VARIABLES
    branches_changed,  \* self.branches_changed: the branches the nodes changed
    a_rev,             \* the revision being applied, 0 before the first
    a_revs,            \* branch -> the revisions of its branch-revs, HEAD last
    a_changed,         \* self.branches_changed of the last revision applied
    a_prepared,        \* the branches prepare_commit was called for in it,
                       \* in the order of the calls
    a_pc               \* "nodes" while the nodes of a revision are applied,
                       \* "applied" once apply_revision has returned

avars == <<branches_changed, a_rev, a_revs, a_changed, a_prepared, a_pc>>

\* node_record.read of the Text-delta and Prop-delta header lines
VARIABLES
    header_lines,      \* the <<tag, value>> lines of the record taken so far
    text_is_delta,     \* node.text_is_delta
    props_is_delta,    \* node.props_is_delta
    n_pc,              \* "headers" in the loop over the lines, "node" once
                       \* the node is read, "raised"
    n_exc              \* the exception node_record.read raised, "" if none

fvars == <<header_lines, text_is_delta, props_is_delta, n_pc, n_exc>>

\* the state of the runs added last
kvars == <<avars, fvars>>

\* the state of the other runs modelled apart
ovars == <<cvars, nvars, kvars>>

\* the state of the runs modelled apart
qvars == <<gvars, lvars, evars, ovars>>

\* the state of project_history_tree besides the branches
tvars == <<uvars, wvars, xvars, yvars, zvars, qvars>>

\* the sequence p begins with the sequence q
IsPrefix(q, p) == Len(q) <= Len(p) /\ SubSeq(p, 1, Len(q)) = q

\* ------------------------------------------------------------ Python dicts
\* a dict is a sequence of <<key, value>> pairs with distinct keys
DictHas(d, k) == \E i \in 1..Len(d) : d[i][1] = k

DictGet(d, k) == d[CHOOSE i \in 1..Len(d) : d[i][1] = k][2]

\* d[k] = v : an existing key keeps its position, a new key goes last
DictSet(d, k, v) ==
    IF DictHas(d, k)
    THEN [i \in 1..Len(d) |-> IF d[i][1] = k THEN <<k, v>> ELSE d[i]]
    ELSE Append(d, <<k, v>>)

DictPop(d, k) == SelectSeq(d, LAMBDA e : e[1] # k)

\* d1 == d2 on dicts ignores the insertion order
DictEq(d1, d2) == {d1[i] : i \in 1..Len(d1)} = {d2[i] : i \in 1..Len(d2)}

\* list(d.items()).sort() : pairs in ascending key order
RECURSIVE SortedItems(_)
SortedItems(d) ==
    IF Len(d) = 0 THEN <<>>
    ELSE LET m == CHOOSE i \in 1..Len(d) : \A j \in 1..Len(d) : d[i][1] <= d[j][1]
         IN <<d[m]>> \o SortedItems([i \in 1..(Len(d) - 1) |-> IF i < m THEN d[i] ELSE d[i + 1]])

\* ---------------------------------------------------------- property delta
\* a delta maps a key to a value, or to 0 (Python None) for a deletion
RECURSIVE DeltaLoop(_, _, _)
DeltaLoop(props, delta, i) ==
    IF i > Len(delta) THEN [err |-> "", props |-> props]
    ELSE LET key == delta[i][1]
             data == delta[i][2]
         IN IF data = 0
            THEN IF ~DictHas(props, key)
                 THEN [err |-> "Exception_history_parse", props |-> props]
                 ELSE DeltaLoop(DictPop(props, key), delta, i + 1)
            ELSE DeltaLoop(DictSet(props, key, data), delta, i + 1)

\* a delta application that skips the entries without a value
apply_delta_to_properties_skip(props, delta) ==
    DeltaLoop(props, SelectSeq(delta, LAMBDA e : e[2] # 0), 1)

\* props is a copy of the caller's dict: the caller's dict is never touched
apply_delta_to_properties(props, delta) == DeltaLoop(props, delta, 1)

\* ---------------------------------------------------------------- the heap
\* st = [objs, its, dict, err] is threaded through the operators below; err is
\* the exception raised inside a nested call, "" if none
NoHash == <<>>
\* data (of an object) and text_content (of a node) are a sequence of zero or
\* one byte strings, a byte string a sequence of 0..255: <<>> is None
NoData == <<>>

NewObject(kind, hidden, properties, data, items) ==
    [kind |-> kind, hidden |-> hidden, properties |-> properties,
     svn_sha1 |-> NoHash, data |-> data, items |-> items]

\* append a new instance, res is its reference
Alloc(st, o) == [st |-> [st EXCEPT !.objs = Append(@, o)], res |-> Len(st.objs) + 1]

is_dir(st, o) == st.objs[o].kind = "tree"

is_file(st, o) == st.objs[o].kind = "blob"

is_finalized(st, o) == st.objs[o].svn_sha1 # NoHash

\* type(self)(self): hidden, properties, blob data and the list of items are
\* copied, svn_sha1 is None; the item instances in the list are shared
copy(st, o) ==
    LET src == st.objs[o]
    IN  Alloc(st, NewObject(src.kind, src.hidden, src.properties, src.data, src.items))

make_unshared(st, o) ==
    IF st.objs[o].svn_sha1 = NoHash THEN [st |-> st, res |-> o] ELSE copy(st, o)

\* self.dict.get(name): the item of that name, 0 if there is none
dict_get(st, t, name) ==
    LET found == {i \in 1..Len(st.objs[t].items) : st.its[st.objs[t].items[i]].name = name}
    IN  IF found = {} THEN 0 ELSE st.objs[t].items[CHOOSE i \in found : TRUE]

\* self.items.remove(item)
RemoveItem(items, item) == SelectSeq(items, LAMBDA i : i # item)

\* self.items.sort(key=lambda t : t.name)
RECURSIVE SortByName(_, _)
SortByName(st, items) ==
    IF Len(items) = 0 THEN <<>>
    ELSE LET m == CHOOSE i \in 1..Len(items) :
                    \A j \in 1..Len(items) : st.its[items[i]].name <= st.its[items[j]].name
         IN <<items[m]>> \o
            SortByName(st, [i \in 1..(Len(items) - 1) |-> IF i < m THEN items[i] ELSE items[i + 1]])

\* a hash that takes the PROP lines in the dict's insertion order
make_svn_hash_unsorted(st, o) ==
    LET self == st.objs[o]
    IN  [hidden |-> self.hidden,
         kind   |-> self.kind,
         data   |-> self.data,
         props  |-> self.properties,
         items  |-> [i \in 1..Len(self.items) |->
                        <<st.its[self.items[i]].name,
                          st.objs[st.its[self.items[i]].object].svn_sha1>>]]

\* the bytes fed to SHA-1: 'hidden ' prefix, kind tag with the data hash,
\* PROP lines in sorted key order, ITEM lines in the order of self.items
make_svn_hash(st, o) ==
    LET self == st.objs[o]
    IN  [hidden |-> self.hidden,
         kind   |-> self.kind,
         data   |-> self.data,
         props  |-> SortedItems(self.properties),
         items  |-> [i \in 1..Len(self.items) |->
                        <<st.its[self.items[i]].name,
                          st.objs[st.its[self.items[i]].object].svn_sha1>>]]

\* Python's recursion limit: a walk nested deeper than there are objects has
\* entered a cycle of trees and ends in RecursionError, recorded in st.err
RecursionError(st) == [st EXCEPT !.err = "RecursionError"]

\* a finalize that stores self under its hash whether or not the key is bound
Intern_rebind(st, o) ==
    LET h == make_svn_hash(st, o)
    IN  [st |-> [st EXCEPT !.objs[o].svn_sha1 = <<h>>,
                           !.dict = (h :> o) @@ @],
         res |-> o]

\* svn_object.finalize: the hash is made and stored in self.svn_sha1; the
\* dictionary's instance of that hash is returned, self if there was none
Intern(st, o) ==
    LET h   == make_svn_hash(st, o)
        st2 == [st EXCEPT !.objs[o].svn_sha1 = <<h>>]
    IN  IF h \in DOMAIN st2.dict
        THEN [st |-> st2, res |-> st2.dict[h]]
        ELSE [st |-> [st2 EXCEPT !.dict = (h :> o) @@ @], res |-> o]

\* svn_tree.finalize / svn_object.finalize, n more nested calls allowed
RECURSIVE FinalizeRec(_, _, _)
RECURSIVE FinalizeItems(_, _, _, _)
FinalizeItems(st, items, i, n) ==
    IF i > Len(items) \/ st.err # "" THEN st
    ELSE LET r == FinalizeRec(st, st.its[items[i]].object, n)
         IN  FinalizeItems([r.st EXCEPT !.its[items[i]].object = r.res], items, i + 1, n)

FinalizeRec(st, o, n) ==
    IF is_finalized(st, o) THEN [st |-> st, res |-> o]
    ELSE IF n = 0 THEN [st |-> RecursionError(st), res |-> o]
    ELSE LET sorted == SortByName(st, st.objs[o].items)
             st1 == IF is_dir(st, o)
                    THEN FinalizeItems([st EXCEPT !.objs[o].items = sorted], sorted, 1, n - 1)
                    ELSE st
         IN  IF st1.err # "" THEN [st |-> st1, res |-> o]
             ELSE Intern(st1, o)

finalize(st, o) == FinalizeRec(st, o, Len(st.objs))

\* svn_object.hide / svn_tree.hide, n more nested calls allowed
RECURSIVE HideRec(_, _, _, _)
RECURSIVE HideItems(_, _, _, _, _)
HideItems(st, items, i, h, n) ==
    IF i > Len(items) \/ st.err # "" THEN st
    ELSE LET r == HideRec(st, st.its[items[i]].object, h, n)
         IN  HideItems([r.st EXCEPT !.its[items[i]].object = r.res], items, i + 1, h, n)

HideRec(st, o, h, n) ==
    IF st.objs[o].hidden = h THEN [st |-> st, res |-> o]
    ELSE IF n = 0 THEN [st |-> RecursionError(st), res |-> o]
    ELSE LET c   == copy(st, o)
             st1 == [c.st EXCEPT !.objs[c.res].hidden = h]
         IN  IF is_dir(st, o)
             THEN [st |-> HideItems(st1, st1.objs[c.res].items, 1, h, n - 1), res |-> c.res]
             ELSE [st |-> st1, res |-> c.res]

hide(st, o, h) == HideRec(st, o, h, Len(st.objs))

\* svn_object.set_properties
set_properties(st, o, props, is_delta) ==
    IF ~is_delta /\ DictEq(st.objs[o].properties, props)
    THEN [st |-> st, res |-> o, err |-> ""]
    ELSE LET u == make_unshared(st, o)
             d == apply_delta_to_properties(u.st.objs[u.res].properties, props)
         IN  IF is_delta
             THEN IF d.err # ""
                  THEN [st |-> u.st, res |-> 0, err |-> d.err]
                  ELSE [st |-> [u.st EXCEPT !.objs[u.res].properties = d.props],
                        res |-> u.res, err |-> ""]
             ELSE [st |-> [u.st EXCEPT !.objs[u.res].properties = props],
                   res |-> u.res, err |-> ""]

\* svn_tree.find_path: 0 if the path is not in the tree
RECURSIVE find_path(_, _, _)
find_path(st, t, path) ==
    IF path = <<>> THEN t
    ELSE IF ~is_dir(st, t) THEN 0
    ELSE LET item == dict_get(st, t, Head(path))
         IN  IF item = 0 THEN 0 ELSE find_path(st, st.its[item].object, Tail(path))

\* svn_tree.set (no keyword arguments)
RECURSIVE set(_, _, _, _)
set(st, self, path, obj) ==
    LET name     == Head(path)
        old_item == dict_get(st, self, name)
        sub == IF Tail(path) # <<>>
               THEN IF old_item = 0 \/ ~is_dir(st, st.its[old_item].object)
                    THEN LET t == Alloc(st, NewObject("tree", FALSE, <<>>, NoData, <<>>))
                         IN  set(t.st, t.res, Tail(path), obj)
                    ELSE set(st, st.its[old_item].object, Tail(path), obj)
               ELSE [st |-> st, res |-> obj]
    IN  IF /\ old_item # 0
           /\ sub.st.objs[sub.st.its[old_item].object].svn_sha1 # NoHash
           /\ sub.st.objs[sub.st.its[old_item].object].svn_sha1 = sub.st.objs[sub.res].svn_sha1
        THEN [st |-> sub.st, res |-> self]
        ELSE LET u  == make_unshared(sub.st, self)
                 s1 == IF old_item # 0
                       THEN [u.st EXCEPT !.objs[u.res].items = RemoveItem(@, old_item)]
                       ELSE u.st
                 hd == IF s1.objs[u.res].hidden /\ ~s1.objs[sub.res].hidden
                       THEN hide(s1, sub.res, TRUE)
                       ELSE [st |-> s1, res |-> sub.res]
                 new_item == Len(hd.st.its) + 1
             IN  [st |-> [hd.st EXCEPT
                            !.its = Append(@, [name |-> name, object |-> hd.res]),
                            !.objs[u.res].items = Append(@, new_item)],
                  res |-> u.res]

\* svn_tree.delete: res is 0 when the path is not found
RECURSIVE delete(_, _, _)
delete(st, self, path) ==
    LET name     == Head(path)
        old_item == dict_get(st, self, name)
    IN  IF old_item = 0 THEN [st |-> st, res |-> 0]
        ELSE LET u == make_unshared(st, self)
             IN  IF Tail(path) = <<>>
                 THEN [st |-> [u.st EXCEPT !.objs[u.res].items = RemoveItem(@, old_item)],
                       res |-> u.res]
                 ELSE IF ~is_dir(u.st, u.st.its[old_item].object)
                 THEN [st |-> u.st, res |-> 0]
                 ELSE LET sub == delete(u.st, u.st.its[old_item].object, Tail(path))
                          new_item == Len(sub.st.its) + 1
                      IN  IF sub.res = 0 THEN [st |-> sub.st, res |-> 0]
                          ELSE [st |-> [sub.st EXCEPT
                                          !.its = Append(@, [name |-> name, object |-> sub.res]),
                                          !.objs[u.res].items =
                                              Append(RemoveItem(@, old_item), new_item)],
                                res |-> u.res]

\* ------------------------------------------------------------- apply_delta
\* get_int: the bytes of b from position pos on, seven bits each, up to the
\* first byte without the continuation bit
RECURSIVE get_int_loop(_, _, _)
get_int_loop(b, pos, num) ==
    IF pos >= Len(b)
    THEN [err |-> "Exception_svn_parse", none |-> FALSE, num |-> 0, pos |-> pos]
    ELSE LET byte == b[pos + 1]
             n == num * 128 + (byte % 128)
         IN  IF byte < 128
             THEN [err |-> "", none |-> FALSE, num |-> n, pos |-> pos + 1]
             ELSE get_int_loop(b, pos + 1, n)

get_int(b, pos, eof_ok) ==
    IF eof_ok /\ pos >= Len(b)
    THEN [err |-> "", none |-> TRUE, num |-> 0, pos |-> pos]
    ELSE get_int_loop(b, pos, 0)

\* get_data: for version 0 the next length bytes; for the later versions the
\* local data is read before anything was assigned to it
get_data(b, pos, length, ver, lz4) ==
    IF ver = 0
    THEN IF pos + length > Len(b)
         THEN [err |-> "Exception_svn_parse", data |-> <<>>, pos |-> pos]
         ELSE [err |-> "", data |-> SubSeq(b, pos + 1, pos + length), pos |-> pos + length]
    ELSE LET original_len == get_int(b, pos, FALSE)
         IN  IF original_len.err # ""
                 THEN [err |-> original_len.err, data |-> <<>>, pos |-> pos]
             ELSE IF length = original_len.num
                 THEN [err |-> "UnboundLocalError", data |-> <<>>, pos |-> original_len.pos]
             ELSE IF ver = 1
                 THEN [err |-> "UnboundLocalError", data |-> <<>>, pos |-> original_len.pos]
             ELSE [err |-> IF lz4 = "missing" THEN "Exception_svn_parse"
                           ELSE IF lz4 = "no_frame" THEN "AttributeError"
                           ELSE "UnboundLocalError",
                   data |-> <<>>, pos |-> original_len.pos]

\* the while copy_len loop of a copy from the target view
RECURSIVE copy_from_target(_, _, _)
copy_from_target(target_view, offset, copy_len) ==
    IF copy_len = 0 THEN target_view
    ELSE LET to_copy == IF offset + copy_len > Len(target_view)
                        THEN Len(target_view) - offset ELSE copy_len
         IN  copy_from_target(target_view \o SubSeq(target_view, offset + 1, offset + to_copy),
                              offset + to_copy, copy_len - to_copy)

\* the instruction loop of one window; x = [ipos, dpos, target_view, opcode, err]
RECURSIVE instruction_loop(_, _, _, _)
instruction_loop(w, instructions, data, x) ==
    IF x.ipos >= Len(instructions) THEN x
    ELSE
    LET instruction == instructions[x.ipos + 1]
        op == (instruction \div 64) * 64
        cl == IF instruction % 64 = 0
              THEN get_int(instructions, x.ipos + 1, FALSE)
              ELSE [err |-> "", none |-> FALSE, num |-> instruction % 64, pos |-> x.ipos + 1]
        x1 == [x EXCEPT !.opcode = <<op>>]
        offset == get_int(instructions, cl.pos, FALSE)
    IN  IF cl.err # "" THEN [x1 EXCEPT !.err = cl.err]
        ELSE IF op = 0
        THEN IF offset.err # "" THEN [x1 EXCEPT !.err = offset.err]
             ELSE IF offset.num + cl.num > w.source_view_length
             THEN [x1 EXCEPT !.err = "Exception_svn_parse"]
             ELSE instruction_loop(w, instructions, data,
                    [x1 EXCEPT !.ipos = offset.pos,
                               !.target_view = @ \o SubSeq(w.base_text,
                                                           offset.num + w.source_offset + 1,
                                                           offset.num + w.source_offset + cl.num)])
        ELSE IF op = 64
        THEN IF offset.err # "" THEN [x1 EXCEPT !.err = offset.err]
             ELSE IF offset.num >= Len(x.target_view)
             THEN [x1 EXCEPT !.err = "Exception_svn_parse"]
             ELSE instruction_loop(w, instructions, data,
                    [x1 EXCEPT !.ipos = offset.pos,
                               !.target_view = copy_from_target(@, offset.num, cl.num)])
        ELSE IF op = 128
        THEN IF x.dpos + cl.num > Len(data)
             THEN [x1 EXCEPT !.err = "Exception_svn_parse"]
             ELSE instruction_loop(w, instructions, data,
                    [x1 EXCEPT !.ipos = cl.pos,
                               !.dpos = @ + cl.num,
                               !.target_view = @ \o SubSeq(data, x.dpos + 1, x.dpos + cl.num)])
        ELSE [x1 EXCEPT !.err = "Exception_svn_parse"]

\* one turn of the window loop: eof when the document has ended; the message
\* of the target length error is formatted with opcode though it has no
\* conversion, so that the error raised is TypeError, or UnboundLocalError
\* when no instruction has bound opcode
delta_window(b, pos, base, ver, lz4, opc) ==
    LET source_offset == get_int(b, pos, TRUE)
        source_view_length == get_int(b, source_offset.pos, FALSE)
        target_view_length == get_int(b, source_view_length.pos, FALSE)
        instructions_length == get_int(b, target_view_length.pos, FALSE)
        data_length == get_int(b, instructions_length.pos, FALSE)
        instructions == get_data(b, data_length.pos, instructions_length.num, ver, lz4)
        data == get_data(b, instructions.pos, data_length.num, ver, lz4)
        x == instruction_loop([base_text |-> base, source_offset |-> source_offset.num,
                               source_view_length |-> source_view_length.num],
                              instructions.data, data.data,
                              [ipos |-> 0, dpos |-> 0, target_view |-> <<>>,
                               opcode |-> opc, err |-> ""])
        Fail(e, o) == [eof |-> FALSE, err |-> e, target_view |-> <<>>, pos |-> pos, opcode |-> o]
    IN  IF source_offset.none
            THEN [eof |-> TRUE, err |-> "", target_view |-> <<>>, pos |-> pos, opcode |-> opc]
        ELSE IF source_offset.err # "" THEN Fail(source_offset.err, opc)
        ELSE IF source_view_length.err # "" THEN Fail(source_view_length.err, opc)
        ELSE IF target_view_length.err # "" THEN Fail(target_view_length.err, opc)
        ELSE IF instructions_length.err # "" THEN Fail(instructions_length.err, opc)
        ELSE IF data_length.err # "" THEN Fail(data_length.err, opc)
        ELSE IF source_offset.num + source_view_length.num > Len(base)
            THEN Fail("Exception_svn_parse", opc)
        ELSE IF instructions.err # "" THEN Fail(instructions.err, opc)
        ELSE IF data.err # "" THEN Fail(data.err, opc)
        ELSE IF x.err # "" THEN Fail(x.err, x.opcode)
        ELSE IF Len(x.target_view) # target_view_length.num
            THEN Fail(IF x.opcode = <<>> THEN "UnboundLocalError" ELSE "TypeError", x.opcode)
        ELSE [eof |-> FALSE, err |-> "", target_view |-> x.target_view,
              pos |-> data.pos, opcode |-> x.opcode]

\* apply_delta's window loop: the windows are decoded one after another and
\* their target views appended to the target data, which is returned at the end of
\* the document; the result is [err, data], data a sequence of zero or one
\* byte strings
RECURSIVE delta_windows(_, _, _, _, _, _, _)
delta_next(w, b, base, ver, lz4, target) ==
    IF w.eof THEN [err |-> "", data |-> <<target>>]
    ELSE IF w.err # "" THEN [err |-> w.err, data |-> <<>>]
    ELSE delta_windows(b, w.pos, base, ver, lz4, w.opcode, target \o w.target_view)

delta_windows(b, pos, base, ver, lz4, opc, target) ==
    delta_next(delta_window(b, pos, base, ver, lz4, opc), b, base, ver, lz4, target)

\* node_record.apply_delta(base_text): the header is checked, then the windows
\* are decoded
apply_delta(b, base, lz4) ==
    IF Len(b) < 4 \/ SubSeq(b, 1, 3) # <<83, 86, 78>>
        THEN [err |-> "Exception_svn_parse", data |-> <<>>]
    ELSE IF b[4] > 2
        THEN [err |-> "Exception_svn_parse", data |-> <<>>]
    ELSE delta_windows(b, 4, base, b[4], lz4, <<>>, <<>>)


\* ---------------------------------------------------------- history_reader
St == [objs |-> objs, its |-> its, dict |-> obj_dictionary, err |-> ""]

\* an absent slot of history_reader.revisions (Python None)
NoRevision == [rev |-> -1, tree |-> 0]

Ok(r) == [st |-> r.st, res |-> r.res, err |-> ""]

Raise(st, e) == [st |-> st, res |-> 0, err |-> e]

\* history_reader.get_revision: the table slot, or the raised exception
get_revision(revs, rev) ==
    IF rev >= Len(revs) THEN [err |-> "Exception_history_parse", r |-> NoRevision]
    ELSE IF revs[rev + 1] = NoRevision THEN [err |-> "Exception_history_parse", r |-> NoRevision]
    ELSE [err |-> "", r |-> revs[rev + 1]]

\* history_reader.make_blob: a new blob of the given data and properties, finalized
make_blob(st, data, properties) ==
    LET b == Alloc(st, NewObject("blob", FALSE, properties, data, <<>>))
    IN  finalize(b.st, b.res)

\* history_reader.copy_blob: a copy of src_obj with the given properties, finalized
copy_blob(st, src_obj, properties) ==
    LET c == copy(st, src_obj)
    IN  finalize([c.st EXCEPT !.objs[c.res].properties = properties], c.res)

\* history_reader.apply_dir_node, action add or change: the directory that
\* is then set at node.path
dir_node_subtree(st, revs, node, base_tree) ==
    LET subtree == find_path(st, base_tree, node.path)
        src == IF node.action = "change" THEN [st |-> st, res |-> subtree, err |-> ""]
               ELSE IF ~node.has_copyfrom
               THEN Ok(Alloc(st, NewObject("tree", FALSE, <<>>, NoData, <<>>)))
               ELSE LET copy_source_rev == get_revision(revs, node.copyfrom_rev)
                        found == find_path(st, copy_source_rev.r.tree, node.copyfrom_path)
                    IN  IF copy_source_rev.err # "" THEN Raise(st, copy_source_rev.err)
                        ELSE IF found = 0 THEN Raise(st, "Exception_history_parse")
                        ELSE IF ~is_dir(st, found) THEN Raise(st, "Exception_history_parse")
                        ELSE LET c == copy(st, found)
                             IN  Ok(hide(c.st, c.res, FALSE))
    IN  IF src.err # "" THEN src
        ELSE IF node.has_props
        THEN set_properties(src.st, src.res, node.props, node.props_is_delta)
        ELSE src

\* an apply_dir_node that takes no add at a path that holds an object,
\* hidden or not
apply_dir_node_strict(st, revs, node, base_tree) ==
    LET subtree == find_path(st, base_tree, node.path)
    IN
    IF node.action = "add" /\ subtree # 0
        THEN Raise(st, "Exception_history_parse")
    ELSE IF node.action # "add" /\ subtree = 0
        THEN Raise(st, "Exception_history_parse")
    ELSE IF node.action # "add" /\ ~is_dir(st, subtree)
        THEN Raise(st, "Exception_history_parse")
    ELSE IF node.action = "delete"
        THEN Ok(delete(st, base_tree, node.path))
    ELSE IF node.action = "hide"
        THEN LET h == hide(st, subtree, TRUE)
             IN  Ok(set(h.st, base_tree, node.path, h.res))
    ELSE LET p == dir_node_subtree(st, revs, node, base_tree)
         IN  IF p.err # "" THEN p
             ELSE Ok(set(p.st, base_tree, node.path, p.res))

\* history_reader.apply_dir_node
apply_dir_node(st, revs, node, base_tree) ==
    LET subtree == find_path(st, base_tree, node.path)
    IN
    IF node.action = "add" /\ subtree # 0 /\ ~st.objs[subtree].hidden
        THEN Raise(st, "Exception_history_parse")
    ELSE IF node.action # "add" /\ subtree = 0
        THEN Raise(st, "Exception_history_parse")
    ELSE IF node.action # "add" /\ ~is_dir(st, subtree)
        THEN Raise(st, "Exception_history_parse")
    ELSE IF node.action = "delete"
        THEN Ok(delete(st, base_tree, node.path))
    ELSE IF node.action = "hide"
        THEN LET h == hide(st, subtree, TRUE)
             IN  Ok(set(h.st, base_tree, node.path, h.res))
    ELSE LET p == dir_node_subtree(st, revs, node, base_tree)
         IN  IF p.err # "" THEN p
             ELSE Ok(set(p.st, base_tree, node.path, p.res))

\* a variant of file_node_blob: a blob made of new text starts from no
\* properties
file_node_blob_fresh(src, text, node, base_tree, file_blob) ==
    LET source_file == src.res
        new0 == IF text.data # NoData THEN <<<<>>>>
                ELSE IF node.action = "change" THEN <<src.st.objs[file_blob].properties>>
                ELSE <<>>
        delta_base == IF new0 # <<>> THEN new0[1]
                      ELSE IF src.base # <<>> THEN src.base[1] ELSE <<>>
        d == apply_delta_to_properties(delta_base, node.props)
        new_properties == IF node.has_props /\ node.props_is_delta THEN <<d.props>>
                          ELSE IF node.has_props THEN <<node.props>>
                          ELSE new0
    IN  IF text.err # "" THEN Raise(src.st, text.err)
        ELSE IF node.has_props /\ node.props_is_delta /\ d.err # ""
            THEN Raise(src.st, d.err)
        ELSE IF text.data # NoData
            THEN LET b == make_blob(src.st, text.data,
                                    IF new_properties = <<>> THEN <<>> ELSE new_properties[1])
                 IN  Ok(set(b.st, base_tree, node.path, b.res))
        ELSE IF source_file = 0
            \* finalize_object(None), copy_blob(None, ...)
            THEN Raise(src.st, IF new_properties = <<>> THEN "AttributeError" ELSE "TypeError")
        ELSE LET b == IF new_properties # <<>>
                      THEN copy_blob(src.st, source_file, new_properties[1])
                      ELSE finalize(src.st, source_file)
             IN  Ok(set(b.st, base_tree, node.path, b.res))

\* apply_file_node from the text on: text is what node.apply_delta(delta_base)
\* returned or raised for a delta, node.text_content otherwise; then the
\* properties are chosen and the blob is made and set
file_node_blob(src, text, node, base_tree, file_blob) ==
    LET source_file == src.res
        \* new_properties, delta_base_properties before the node's own block
        new0 == IF node.action = "change" THEN <<src.st.objs[file_blob].properties>>
                ELSE IF text.data # NoData /\ source_file # 0
                THEN <<src.st.objs[source_file].properties>>
                ELSE <<>>
        delta_base == IF new0 # <<>> THEN new0[1]
                      ELSE IF src.base # <<>> THEN src.base[1] ELSE <<>>
        d == apply_delta_to_properties(delta_base, node.props)
        new_properties == IF node.has_props /\ node.props_is_delta THEN <<d.props>>
                          ELSE IF node.has_props THEN <<node.props>>
                          ELSE new0
    IN  IF text.err # "" THEN Raise(src.st, text.err)
        ELSE IF node.has_props /\ node.props_is_delta /\ d.err # ""
            THEN Raise(src.st, d.err)
        ELSE IF text.data # NoData
            THEN LET b == make_blob(src.st, text.data,
                                    IF new_properties = <<>> THEN <<>> ELSE new_properties[1])
                 IN  Ok(set(b.st, base_tree, node.path, b.res))
        ELSE IF source_file = 0
            \* finalize_object(None), copy_blob(None, ...)
            THEN Raise(src.st, IF new_properties = <<>> THEN "AttributeError" ELSE "TypeError")
        ELSE LET b == IF new_properties # <<>>
                      THEN copy_blob(src.st, source_file, new_properties[1])
                      ELSE finalize(src.st, source_file)
             IN  Ok(set(b.st, base_tree, node.path, b.res))

\* history_reader.apply_file_node; a property dict that may be None is a
\* sequence of zero or one dicts
apply_file_node(st, revs, node, base_tree) ==
    LET file_blob == find_path(st, base_tree, node.path)
    IN
    IF node.action # "add" /\ file_blob = 0
        THEN Raise(st, "Exception_history_parse")
    ELSE IF node.action # "add" /\ ~is_file(st, file_blob)
        THEN Raise(st, "Exception_history_parse")
    ELSE IF node.action = "add" /\ file_blob # 0 /\ ~st.objs[file_blob].hidden
        THEN Raise(st, "Exception_history_parse")
    ELSE IF node.action = "delete"
        THEN Ok(delete(st, base_tree, node.path))
    ELSE IF node.action = "hide"
        THEN LET h == hide(st, file_blob, TRUE)
             IN  Ok(set(h.st, base_tree, node.path, h.res))
    ELSE
    LET base0 == IF node.action # "add" THEN <<st.objs[file_blob].properties>> ELSE <<>>
        src == IF ~node.has_copyfrom THEN [st |-> st, res |-> file_blob, err |-> "", base |-> base0]
               ELSE LET copy_source_rev == get_revision(revs, node.copyfrom_rev)
                        found == find_path(st, copy_source_rev.r.tree, node.copyfrom_path)
                    IN  IF copy_source_rev.err # ""
                            THEN [st |-> st, res |-> 0, err |-> copy_source_rev.err, base |-> <<>>]
                        ELSE IF found = 0 \/ ~is_file(st, found)
                            THEN [st |-> st, res |-> 0, err |-> "Exception_history_parse", base |-> <<>>]
                        ELSE LET h == hide(st, found, FALSE)
                             IN  [st |-> h.st, res |-> h.res, err |-> "",
                                  base |-> <<st.objs[found].properties>>]
    IN  IF src.err # "" THEN Raise(src.st, src.err)
        ELSE file_node_blob(src,
                 IF node.text_is_delta
                 THEN apply_delta(node.text_content[1],
                                  IF src.res # 0 THEN src.st.objs[src.res].data[1] ELSE <<>>,
                                  lz4_module)
                 ELSE [err |-> "", data |-> node.text_content],
                 node, base_tree, file_blob)

\* apply_node's last statement, node.action = action, is reached on return
\* only: action is the value node.action is left with, which is the changed
\* one when an exception is raised after the change
Returned(r, action, changed) ==
    [st |-> r.st, res |-> r.res, err |-> r.err,
     action |-> IF r.err = "" /\ r.st.err = "" THEN action ELSE changed]

\* history_reader.apply_node
apply_node(st, revs, node, base_tree) ==
    LET del == IF node.action = "replace" THEN delete(st, base_tree, node.path)
               ELSE [st |-> st, res |-> base_tree]
        n == IF node.action = "replace" THEN [node EXCEPT !.action = "add"] ELSE node
    IN  IF del.res = 0
        THEN Returned(Raise(del.st, "Exception_history_parse"), node.action, node.action)
        ELSE Returned(
                IF node.kind = "dir" THEN apply_dir_node(del.st, revs, n, del.res)
                ELSE IF node.kind = "file" THEN apply_file_node(del.st, revs, n, del.res)
                ELSE IF node.action = "delete"
                    THEN LET new_tree == delete(del.st, del.res, node.path)
                         IN  IF new_tree.res = 0
                             THEN Raise(new_tree.st, "Exception_history_parse")
                             ELSE Ok(new_tree)
                ELSE Raise(del.st, "Exception_history_parse"),
                node.action, n.action)

\* ------------------------------------------------------------------ inputs
Names == 1..MaxName

Paths == UNION {[1..n -> Names] : n \in 1..MaxDepth}

\* a copy source is a top-level entry or the repository root, the empty path
CopyPaths == {p \in Paths : Len(p) = 1} \cup {<<>>}

\* property blocks of at most n entries: dicts over the keys with values
\* 1..maxval, a value 0 is a 'D' entry
RECURSIVE Blocks(_, _, _)
Blocks(keys, maxval, n) ==
    IF keys = {} \/ n = 0 THEN {<<>>}
    ELSE {<<>>} \cup
         UNION {{<<<<k, v>>>> \o b : v \in 0..maxval, b \in Blocks(keys \ {k}, maxval, n - 1)} :
                    k \in keys}

\* a node record as node_record.read leaves it
Node(kind, action, path) ==
    [kind |-> kind, action |-> action, path |-> path,
     has_copyfrom |-> FALSE, copyfrom_path |-> <<>>, copyfrom_rev |-> 0,
     has_props |-> FALSE, props |-> <<>>, props_is_delta |-> FALSE,
     text_content |-> NoData, text_is_delta |-> FALSE]

WithCopy(n, path, rev) ==
    [n EXCEPT !.has_copyfrom = TRUE, !.copyfrom_path = path, !.copyfrom_rev = rev]

WithProps(n, props, is_delta) ==
    [n EXCEPT !.has_props = TRUE, !.props = props, !.props_is_delta = is_delta]

WithText(n, data) == [n EXCEPT !.text_content = <<data>>]
WithDelta(n, svndiff) == [n EXCEPT !.text_content = <<svndiff>>, !.text_is_delta = TRUE]

\* 'D' entries come in delta blocks only
PropArgs(maxval, n) ==
    {pa \in Blocks(1..MaxKey, maxval, n) \X BOOLEAN :
        pa[2] \/ \A i \in 1..Len(pa[1]) : pa[1][i][2] # 0}

\* Node-action: delete without a Node-kind
DeleteNodes == {Node("none", "delete", p) : p \in Paths}

\* the 'hide' actions that project_tree makes from DeletePath rules
HideNodes == {Node(k, "hide", p) : k \in {"dir", "file"}, p \in Paths}

DirAddNodes == {Node("dir", "add", p) : p \in Paths}

DirCopyNodes ==
    {WithCopy(Node("dir", "add", p), cp, r) : p \in Paths, cp \in CopyPaths, r \in 0..MaxRevNum}

\* the file contents of the dumps
Texts == {[i \in 1..n |-> 96 + i] : n \in 1..MaxData}

FileAddNodes == {WithText(Node("file", "add", p), d) : p \in Paths, d \in Texts}

\* nodes that build and edit trees, without property blocks
TreeNodes == DeleteNodes \cup HideNodes \cup DirAddNodes \cup DirCopyNodes \cup FileAddNodes

\* Node-action: replace, with what an add may carry
ReplaceNodes ==
    {[n EXCEPT !.action = "replace"] : n \in DirAddNodes \cup DirCopyNodes \cup FileAddNodes}

\* nodes with a property block of at most n entries: a file add carries text
PropNodes(paths, maxval, n) ==
    {WithProps(Node("dir", a, p), pa[1], pa[2]) :
        a \in {"add", "change"}, p \in paths, pa \in PropArgs(maxval, n)}
    \cup {WithProps(WithText(Node("file", "add", p), <<97>>), pa[1], pa[2]) :
        p \in paths, pa \in PropArgs(maxval, n)}
    \cup {WithProps(Node("file", "change", p), pa[1], pa[2]) :
        p \in paths, pa \in PropArgs(maxval, n)}

TopPaths == {p \in Paths : Len(p) = 1}

\* the nodes of a dump with property blocks: one-entry blocks, a file add
\* may carry a full block of MaxBlock entries; deletes of top-level entries
PropDumpNodes ==
    PropNodes(TopPaths, MaxVal, 1)
    \cup {WithProps(WithText(Node("file", "add", p), <<97>>), pa[1], pa[2]) :
            p \in TopPaths, pa \in {a \in PropArgs(MaxVal, MaxBlock) : ~a[2]}}
    \cup {n \in DeleteNodes : n.path \in TopPaths}

\* ----------------------------------------------------------------- actions
EmptyTreeHash == make_svn_hash([objs |-> <<NewObject("tree", FALSE, <<>>, NoData, <<>>)>>,
                                its |-> <<>>, dict |-> <<>>, err |-> ""], 1)

\* history_reader.__init__: empty_tree is finalized into the empty dictionary
HInit ==
    /\ objs = <<[NewObject("tree", FALSE, <<>>, NoData, <<>>) EXCEPT !.svn_sha1 = <<EmptyTreeHash>>]>>
    /\ its = <<>>
    /\ obj_dictionary = (EmptyTreeHash :> 1)
    /\ revisions = <<>>
    /\ prev_rev = <<>>
    /\ warnings = 0
    /\ pc = "read"
    /\ node_i = 0
    /\ exc = ""

\* history_reader.get_head_tree
get_head_tree == IF Len(revisions) = 0 THEN 1 ELSE revisions[Len(revisions)].tree

\* a load that rejects only a revision number below the previous one
LoadRevision_below(rev) ==
    /\ pc = "read"
    /\ IF prev_rev # <<>> /\ rev < prev_rev[1]
       THEN /\ pc' = "failed"
            /\ exc' = "Exception_history_parse"
            /\ UNCHANGED <<objs, its, obj_dictionary, revisions, prev_rev, warnings, node_i>>
       ELSE /\ warnings' = IF prev_rev # <<>> /\ rev > prev_rev[1] + 1
                           THEN warnings + 1 ELSE warnings
            /\ prev_rev' = <<rev>>
            /\ revisions' = Append(revisions \o [i \in 1..(rev - Len(revisions)) |-> NoRevision],
                                   [rev |-> rev, tree |-> get_head_tree])
            /\ pc' = "apply"
            /\ node_i' = 0
            /\ UNCHANGED <<objs, its, obj_dictionary, exc>>

\* load(): one dump revision is taken from read_revisions, checked against
\* prev_rev and appended to the revision table
LoadRevision(rev) ==
    /\ pc = "read"
    /\ IF prev_rev # <<>> /\ rev <= prev_rev[1]
       THEN /\ pc' = "failed"
            /\ exc' = "Exception_history_parse"
            /\ UNCHANGED <<objs, its, obj_dictionary, revisions, prev_rev, warnings, node_i>>
       ELSE /\ warnings' = IF prev_rev # <<>> /\ rev > prev_rev[1] + 1
                           THEN warnings + 1 ELSE warnings
            /\ prev_rev' = <<rev>>
            /\ revisions' = Append(revisions \o [i \in 1..(rev - Len(revisions)) |-> NoRevision],
                                   [rev |-> rev, tree |-> get_head_tree])
            /\ pc' = "apply"
            /\ node_i' = 0
            /\ UNCHANGED <<objs, its, obj_dictionary, exc>>

\* the exception an operation ended with: one raised in a nested call first
Exc(r) == IF r.st.err # "" THEN r.st.err ELSE r.err

\* apply_revision(): what becomes of the value or exception of apply_node
NodeApplied(r) ==
    IF Exc(r) = "RecursionError"
    THEN /\ pc' = "failed"
         /\ exc' = "RecursionError"
         /\ UNCHANGED <<objs, its, obj_dictionary, revisions, node_i>>
    ELSE /\ objs' = r.st.objs
         /\ its' = r.st.its
         /\ obj_dictionary' = r.st.dict
         /\ IF r.err # ""
            THEN /\ pc' = "failed"
                 /\ exc' = r.err
                 /\ UNCHANGED <<revisions, node_i>>
            ELSE /\ revisions' = [revisions EXCEPT ![Len(revisions)].tree = r.res]
                 /\ node_i' = node_i + 1
                 /\ UNCHANGED <<pc, exc>>

\* apply_revision(): one node of the revision is applied to revision.tree
ApplyNode(node) ==
    /\ pc = "apply"
    /\ node_i < MaxNodes
    /\ Len(objs) < MaxObjs
    /\ NodeApplied(apply_node(St, revisions, node, revisions[Len(revisions)].tree))
    /\ UNCHANGED <<prev_rev, warnings>>

\* apply_revision(): after the last node revision.tree is finalized
FinalizeRevision ==
    /\ pc = "apply"
    /\ LET r == finalize(St, revisions[Len(revisions)].tree)
       IN  IF r.st.err # ""
           THEN /\ pc' = "failed"
                /\ exc' = r.st.err
                /\ UNCHANGED <<objs, its, obj_dictionary, revisions>>
           ELSE /\ objs' = r.st.objs
                /\ its' = r.st.its
                /\ obj_dictionary' = r.st.dict
                /\ revisions' = [revisions EXCEPT ![Len(revisions)].tree = r.res]
                /\ pc' = "read"
                /\ exc' = exc
    /\ UNCHANGED <<prev_rev, warnings, node_i>>

\* load(): read_revisions is exhausted
EndOfDump ==
    /\ pc = "read"
    /\ pc' = "done"
    /\ UNCHANGED <<objs, its, obj_dictionary, revisions, prev_rev, warnings, node_i, exc>>

\* --------------------------------------------------------- svn_dump_reader
\* A record is the group of header lines dump_record.read returns: type is
\* the tag of its first line and value that line's value, lines the number
\* of header lines, last the tag of the last line, kind the Node-kind value.
\* Values are abstract: a dump-format-version number, 1 for a well-formed
\* UUID and 0 for another string, a revision number or -1 for a value that
\* is not decimal, the path of a node.
Rec(type, value, lines, last, kind) ==
    [type |-> type, value |-> value, lines |-> lines, last |-> last, kind |-> kind]

VersionRecords ==
    {Rec("SVN-fs-dump-format-version", v, 1, "SVN-fs-dump-format-version", "") : v \in 1..3}
    \cup {Rec("SVN-fs-dump-format-version", 2, 2, "Other", "")}

UUIDRecords == {Rec("UUID", v, 1, "UUID", "") : v \in {0, 1}}

RevisionRecords ==
    {Rec("Revision-number", v, 2, "Content-length", "") : v \in -1..MaxDumpRev}
    \cup {Rec("Revision-number", 0, 2, "Prop-content-length", "")}

NodeRecords ==
    {Rec("Node-path", p, 3, "Node-action", "dir") : p \in Names}
    \cup {Rec("Node-path", 1, 3, "Node-action", "symlink")}

\* a record of an unknown type, and a line that is not "tag: value"
OtherRecords == {Rec("Other", 0, 1, "Other", ""), Rec("", 0, 1, "", "")}

Records == VersionRecords \cup UUIDRecords \cup RevisionRecords \cup NodeRecords \cup OtherRecords

EOF == Rec("EOF", 0, 0, "", "")

\* what the file holds next: end of file once MaxRecords records were read
NextRecords == IF Len(dump) < MaxRecords THEN Records \cup {EOF} ELSE {EOF}

\* dump_record.read: None at end of file, Exception_svn_parse for a line that
\* does not split into tag and value
dump_record_read(next) ==
    IF next = EOF THEN [err |-> "", record |-> <<>>]
    ELSE IF next.type = "" THEN [err |-> "Exception_svn_parse", record |-> <<>>]
    ELSE [err |-> "", record |-> <<next>>]

\* a check that takes any dump-format-version value
validate_dump_version_record_any(rec) ==
    IF rec = <<>> THEN "Exception_svn_parse"
    ELSE IF rec[1].lines # 1 THEN "TypeError"
    ELSE IF rec[1].type # "SVN-fs-dump-format-version" THEN "Exception_svn_parse"
    ELSE ""

\* validate_dump_version_record: the exception raised, "" if none; the
\* message of the line-count error calls len() on a dump_record, which has
\* no __len__, so that the error raised is TypeError
validate_dump_version_record(rec) ==
    IF rec = <<>> THEN "Exception_svn_parse"
    ELSE IF rec[1].lines # 1 THEN "TypeError"
    ELSE IF rec[1].type # "SVN-fs-dump-format-version" THEN "Exception_svn_parse"
    ELSE IF rec[1].value # 2 /\ rec[1].value # 3 THEN "Exception_svn_parse"
    ELSE ""

\* validate_UUID_record: the record if it is a UUID record, else None
validate_UUID_record(rec) ==
    IF rec # <<>> /\ rec[1].type = "UUID"
    THEN IF rec[1].value # 1 THEN [err |-> "Exception_svn_parse", res |-> <<>>]
         ELSE [err |-> "", res |-> rec]
    ELSE [err |-> "", res |-> <<>>]

\* revision_record.__init__: the header checks
revision_record(rec) ==
    IF rec.type # "Revision-number" THEN [err |-> "Exception_svn_parse", rev |-> 0]
    ELSE IF rec.value < 0 THEN [err |-> "Exception_svn_parse", rev |-> 0]
    ELSE IF rec.last # "Content-length" THEN [err |-> "Exception_svn_parse", rev |-> 0]
    ELSE [err |-> "", rev |-> rec.value]

\* node_record.read: the path, and the Node-kind check
node_record_read(rec) ==
    IF rec.kind # "file" /\ rec.kind # "dir" THEN [err |-> "Exception_svn_parse", node |-> 0]
    ELSE [err |-> "", node |-> rec.value]

RInit ==
    /\ dump = <<>>
    /\ record = <<>>
    /\ version_record = <<>>
    /\ uuid_record = <<>>
    /\ revision = <<>>
    /\ yielded = <<>>
    /\ rd_pc = "version"
    /\ rd_exc = ""

\* the exception leaves the generator
RdRaise(e) ==
    /\ rd_pc' = "raised"
    /\ rd_exc' = e

Taken(next) == IF next = EOF THEN dump ELSE Append(dump, next)

\* read_revisions(): the first record is read and validated
ReadVersion(next) ==
    /\ rd_pc = "version"
    /\ dump' = Taken(next)
    /\ LET r == dump_record_read(next)
           e == IF r.err # "" THEN r.err ELSE validate_dump_version_record(r.record)
       IN  IF e # ""
           THEN RdRaise(e) /\ UNCHANGED version_record
           ELSE /\ version_record' = r.record
                /\ rd_pc' = "uuid"
                /\ UNCHANGED rd_exc
    /\ UNCHANGED <<record, uuid_record, revision, yielded>>

\* read_revisions(): the second record is read, it may be the UUID record
ReadUUID(next) ==
    /\ rd_pc = "uuid"
    /\ dump' = Taken(next)
    /\ LET r == dump_record_read(next)
           u == validate_UUID_record(r.record)
       IN  IF r.err # ""
           THEN RdRaise(r.err) /\ UNCHANGED <<record, uuid_record>>
           ELSE /\ record' = r.record
                /\ IF u.err # ""
                   THEN RdRaise(u.err) /\ UNCHANGED uuid_record
                   ELSE /\ uuid_record' = u.res
                        /\ rd_pc' = IF u.res # <<>> THEN "after_uuid" ELSE "revision"
                        /\ UNCHANGED rd_exc
    /\ UNCHANGED <<version_record, revision, yielded>>

\* read_revisions(): the record after the UUID record is read
ReadAfterUUID(next) ==
    /\ rd_pc = "after_uuid"
    /\ dump' = Taken(next)
    /\ LET r == dump_record_read(next)
       IN  IF r.err # ""
           THEN RdRaise(r.err) /\ UNCHANGED record
           ELSE /\ record' = r.record
                /\ rd_pc' = "revision"
                /\ UNCHANGED rd_exc
    /\ UNCHANGED <<version_record, uuid_record, revision, yielded>>

\* read_revisions(): a revision is made of the record, which takes over the
\* version and UUID records, and the next record is read
StartRevision(next) ==
    /\ rd_pc = "revision"
    /\ record # <<>>
    /\ LET rv == revision_record(record[1])
           r  == dump_record_read(next)
       IN  IF rv.err # ""
           THEN /\ RdRaise(rv.err)
                /\ revision' = <<>>
                /\ UNCHANGED <<dump, record, version_record, uuid_record>>
           ELSE /\ revision' = <<[rev |-> rv.rev, nodes |-> <<>>,
                                  version_record |-> version_record,
                                  uuid_record |-> uuid_record]>>
                /\ version_record' = <<>>
                /\ uuid_record' = <<>>
                /\ dump' = Taken(next)
                /\ IF r.err # ""
                   THEN RdRaise(r.err) /\ UNCHANGED record
                   ELSE /\ record' = r.record
                        /\ rd_pc' = "nodes"
                        /\ UNCHANGED rd_exc
    /\ UNCHANGED yielded

\* read_revisions(): a Node-path record is read into the revision's nodes and
\* the next record is read
ReadNode(next) ==
    /\ rd_pc = "nodes"
    /\ record # <<>> /\ record[1].type = "Node-path"
    /\ LET n == node_record_read(record[1])
           r == dump_record_read(next)
       IN  IF n.err # ""
           THEN RdRaise(n.err) /\ UNCHANGED <<dump, record, revision>>
           ELSE /\ revision' = <<[revision[1] EXCEPT !.nodes = Append(@, n.node)]>>
                /\ dump' = Taken(next)
                /\ IF r.err # ""
                   THEN RdRaise(r.err) /\ UNCHANGED record
                   ELSE /\ record' = r.record
                        /\ UNCHANGED <<rd_pc, rd_exc>>
    /\ UNCHANGED <<version_record, uuid_record, yielded>>

\* read_revisions(): the record is not a Node-path record, the revision is yielded
YieldRevision ==
    /\ rd_pc = "nodes"
    /\ IF record = <<>> THEN TRUE ELSE record[1].type # "Node-path"
    /\ yielded' = Append(yielded, revision[1])
    /\ rd_pc' = "revision"
    /\ UNCHANGED <<dump, record, version_record, uuid_record, revision, rd_exc>>

\* read_revisions(): record is None, the generator returns
EndOfRecords ==
    /\ rd_pc = "revision"
    /\ record = <<>>
    /\ rd_pc' = "done"
    /\ UNCHANGED <<dump, record, version_record, uuid_record, revision, yielded, rd_exc>>

\* ------------------------------------------------------- svndiff documents
\* an instruction: op 0 copies from the source view, 1 from the target view,
\* 2 from the new data; op 3 is selector 0xC0
Instr(op, len, offset) == [op |-> op, len |-> len, offset |-> offset]

Instructions ==
    {Instr(0, l, o) : l \in 1..MaxCopy, o \in 0..1}
    \cup {Instr(1, l, o) : l \in {1, MaxRepeat}, o \in 0..1}
    \cup {Instr(2, l, 0) : l \in 0..MaxCopy}
    \cup {Instr(3, 1, 0)}

Programs(n) == UNION {[1..k -> Instructions] : k \in 0..n}

RECURSIVE SumLen(_)
SumLen(instrs) == IF instrs = <<>> THEN 0 ELSE Head(instrs).len + SumLen(Tail(instrs))

\* a window; wide windows write their numbers with a leading continuation byte
Window(so, svl, tvl, instrs, data, wide) ==
    [source_offset |-> so, source_view_length |-> svl, target_view_length |-> tvl,
     instrs |-> instrs, data |-> data, wide |-> wide]

\* a document: the four header bytes, the windows; packed documents of version
\* 1 and 2 give their sections an original length that is not the stored one,
\* cut is the number of bytes missing at the end
Doc(header, windows, packed, cut) ==
    [header |-> header, windows |-> windows, packed |-> packed, cut |-> cut]

SVN(version) == <<83, 86, 78, version>>

Varint(n, wide) == IF wide THEN <<128, n>> ELSE <<n>>

InstrBytes(i, wide) ==
    <<i.op * 64 + (IF i.len \in 1..63 THEN i.len ELSE 0)>>
    \o (IF i.len \in 1..63 THEN <<>> ELSE Varint(i.len, wide))
    \o (IF i.op \in {0, 1} THEN Varint(i.offset, wide) ELSE <<>>)

RECURSIVE Concat(_)
Concat(ss) == IF ss = <<>> THEN <<>> ELSE Head(ss) \o Concat(Tail(ss))

\* a section as it is stored: from version 1 on its original length comes first
Section(bytes, version, packed) ==
    IF version = 0 THEN bytes
    ELSE Varint(Len(bytes) + (IF packed THEN 1 ELSE 0), FALSE) \o bytes

WindowBytes(w, version, packed) ==
    LET instructions == Concat([i \in 1..Len(w.instrs) |-> InstrBytes(w.instrs[i], w.wide)])
    IN  Varint(w.source_offset, w.wide) \o Varint(w.source_view_length, w.wide)
        \o Varint(w.target_view_length, w.wide)
        \o Varint(Len(instructions), w.wide) \o Varint(Len(w.data), w.wide)
        \o Section(instructions, version, packed) \o Section(w.data, version, packed)

DocVersion(doc) == IF Len(doc.header) = 4 THEN doc.header[4] ELSE 0

Encode(doc) ==
    LET b == doc.header
             \o Concat([i \in 1..Len(doc.windows) |->
                            WindowBytes(doc.windows[i], DocVersion(doc), doc.packed)])
    IN  SubSeq(b, 1, Len(b) - doc.cut)

NewData == {<<>>, <<120>>, <<120, 121>>}

\* version 0, one window over a two byte base
Docs0 ==
    {Doc(SVN(0), <<Window(so, svl, SumLen(p) + d, p, data, FALSE)>>, FALSE, 0) :
        so \in 0..1, svl \in 1..2, d \in 0..1, p \in Programs(MaxInstr), data \in NewData}

\* versions 1 to 3, one window of at most one instruction
DocsV ==
    {Doc(SVN(v), <<Window(0, 2, SumLen(p), p, data, FALSE)>>, packed, 0) :
        v \in 1..3, p \in Programs(1), data \in NewData, packed \in BOOLEAN}

SmallWindows ==
    {Window(0, 2, SumLen(p) + d, p, <<120>>, FALSE) : d \in 0..1, p \in Programs(1)}

\* version 0, MaxWindows windows
Docs2 == {Doc(SVN(0), ws, FALSE, 0) : ws \in [1..MaxWindows -> SmallWindows]}

\* wide numbers, damaged headers, a missing last byte
DocsX ==
    {Doc(SVN(0), <<Window(0, 2, SumLen(p), p, <<120, 121>>, TRUE)>>, FALSE, 0) :
        p \in Programs(MaxInstr)}
    \cup {Doc(h, <<Window(0, 2, 0, <<>>, <<>>, FALSE)>>, FALSE, 0) :
            h \in {<<>>, <<83, 86, 78>>, <<88, 86, 78, 0>>}}
    \cup {Doc(SVN(0), <<Window(0, 2, SumLen(p), p, <<120>>, FALSE)>>, FALSE, 1) :
            p \in Programs(1)}

Docs == Docs0 \cup DocsV \cup Docs2 \cup DocsX

\* apply_delta is entered with a document and its base
DeltaCall(doc, base, lz4) ==
    /\ delta_doc = doc
    /\ text_content = Encode(doc)
    /\ base_text = base
    /\ lz4_module = lz4
    /\ fd_pos = 0
    /\ target_data = <<>>
    /\ opcode = <<>>
    /\ d_pc = "header"
    /\ d_exc = ""

\* no delta is applied
DIdle == DeltaCall(Doc(SVN(0), <<>>, FALSE, 0), <<>>, "missing")

DInit ==
    \E doc \in Docs, lz4 \in {"missing", "no_frame", "frame"} :
        /\ lz4 # "missing" => DocVersion(doc) = 2
        /\ DeltaCall(doc, <<97, 98>>, lz4)

\* apply_delta(): the header is read and checked
DeltaHeader ==
    /\ d_pc = "header"
    /\ LET header == SubSeq(text_content, 1, IF Len(text_content) < 4 THEN Len(text_content) ELSE 4)
       IN  IF Len(header) # 4 \/ SubSeq(header, 1, 3) # <<83, 86, 78>>
           THEN d_pc' = "raised" /\ d_exc' = "Exception_svn_parse"
           ELSE IF header[4] > 2
           THEN d_pc' = "raised" /\ d_exc' = "Exception_svn_parse"
           ELSE d_pc' = "window" /\ d_exc' = d_exc
    /\ fd_pos' = IF Len(text_content) < 4 THEN Len(text_content) ELSE 4
    /\ UNCHANGED <<delta_doc, text_content, base_text, lz4_module, target_data, opcode>>

\* apply_delta(): one window is decoded and appended to target_data, or the
\* document has ended and target_data is returned
DeltaWindow ==
    /\ d_pc = "window"
    /\ LET w == delta_window(text_content, fd_pos, base_text, text_content[4], lz4_module, opcode)
       IN  IF w.eof
           THEN /\ d_pc' = "done"
                /\ UNCHANGED <<fd_pos, target_data, opcode, d_exc>>
           ELSE IF w.err # ""
           THEN /\ d_pc' = "raised"
                /\ d_exc' = w.err
                /\ opcode' = w.opcode
                /\ UNCHANGED <<fd_pos, target_data>>
           ELSE /\ target_data' = target_data \o w.target_view
                /\ fd_pos' = w.pos
                /\ opcode' = w.opcode
                /\ UNCHANGED <<d_pc, d_exc>>
    /\ UNCHANGED <<delta_doc, text_content, base_text, lz4_module>>

\* -------------------------------------------------------------- rev_ranges
\* ranges are sorted lists of closed intervals <<lo, hi>>, adjacent and
\* overlapping intervals merged
RevsOf(ranges) == UNION {ranges[i][1]..ranges[i][2] : i \in 1..Len(ranges)}

RECURSIVE RangesOf(_)
RangesOf(S) ==
    IF S = {} THEN <<>>
    ELSE LET lo == CHOOSE x \in S : \A y \in S : x <= y
             hi == CHOOSE h \in S : h >= lo /\ (\A y \in lo..h : y \in S) /\ (h + 1) \notin S
         IN  <<<<lo, hi>>>> \o RangesOf(S \ (lo..hi))

combine_ranges(a, b) == RangesOf(RevsOf(a) \cup RevsOf(b))

subtract_ranges(a, b) == RangesOf(RevsOf(a) \ RevsOf(b))

\* --------------------------------------------------------------- mergeinfo
\* a mergeinfo path is the sequence of its names, <<>> is '/'
Mergeinfo(paths_dict, normalized) == [paths_dict |-> paths_dict, normalized |-> normalized]

\* mergeinfo()
NewMergeinfo == Mergeinfo(<<>>, TRUE)

\* mergeinfo.add_mergeinfo: the loop over add.paths_dict
RECURSIVE add_mergeinfo_loop(_, _, _, _)
add_mergeinfo_loop(paths_dict, add, i, was_changed) ==
    IF i > Len(add) THEN [paths_dict |-> paths_dict, was_changed |-> was_changed]
    ELSE LET path == add[i][1]
             ranges == add[i][2]
         IN  IF ~DictHas(paths_dict, path)
             THEN add_mergeinfo_loop(DictSet(paths_dict, path, ranges), add, i + 1, TRUE)
             ELSE IF combine_ranges(DictGet(paths_dict, path), ranges) # DictGet(paths_dict, path)
             THEN add_mergeinfo_loop(
                      DictSet(paths_dict, path, combine_ranges(DictGet(paths_dict, path), ranges)),
                      add, i + 1, TRUE)
             ELSE add_mergeinfo_loop(paths_dict, add, i + 1, was_changed)

add_mergeinfo(self, add) ==
    LET r == add_mergeinfo_loop(self.paths_dict, add.paths_dict, 1, FALSE)
    IN  Mergeinfo(r.paths_dict, IF r.was_changed THEN FALSE ELSE self.normalized)

\* '/a' < '/a/b' < '/b': the order of the path strings
RECURSIVE PathLess(_, _)
PathLess(p, q) ==
    IF p = <<>> THEN q # <<>>
    ELSE IF q = <<>> THEN FALSE
    ELSE IF Head(p) # Head(q) THEN Head(p) < Head(q)
    ELSE PathLess(Tail(p), Tail(q))

\* mergeinfo_list.sort()
RECURSIVE SortedPaths(_)
SortedPaths(d) ==
    IF Len(d) = 0 THEN <<>>
    ELSE LET m == CHOOSE i \in 1..Len(d) :
                      \A j \in 1..Len(d) : j # i => PathLess(d[i][1], d[j][1])
         IN <<d[m]>> \o SortedPaths([i \in 1..(Len(d) - 1) |-> IF i < m THEN d[i] ELSE d[i + 1]])

\* the paths normalize looks up for a path, in this order: its parents up to
\* '/'; for '/' that is '/' itself
parent_paths(path) ==
    IF path = <<>> THEN << <<>> >>
    ELSE [i \in 1..Len(path) |-> SubSeq(path, 1, Len(path) - i)]

\* dict.get(path), <<>> when the path is missing
get_ranges(paths_dict, path) ==
    IF DictHas(paths_dict, path) THEN DictGet(paths_dict, path) ELSE <<>>

\* a variant of subtract_parents that looks at the nearest parent only
subtract_parent(paths_dict, parents, i, ranges) ==
    subtract_ranges(ranges, get_ranges(paths_dict, parents[1]))

\* normalize: the while parent_path loop
RECURSIVE subtract_parents(_, _, _, _)
subtract_parents(paths_dict, parents, i, ranges) ==
    IF i > Len(parents) THEN ranges
    ELSE IF get_ranges(paths_dict, parents[i]) # <<>>
    THEN IF subtract_ranges(ranges, get_ranges(paths_dict, parents[i])) = <<>>
         THEN <<>>
         ELSE subtract_parents(paths_dict, parents, i + 1,
                               subtract_ranges(ranges, get_ranges(paths_dict, parents[i])))
    ELSE subtract_parents(paths_dict, parents, i + 1, ranges)

\* normalize: the loop over the sorted list
RECURSIVE normalize_loop(_, _, _)
normalize_loop(mergeinfo_list, i, paths_dict) ==
    IF i > Len(mergeinfo_list) THEN paths_dict
    ELSE normalize_loop(mergeinfo_list, i + 1,
             LET ranges == subtract_parents(paths_dict, parent_paths(mergeinfo_list[i][1]), 1,
                                            mergeinfo_list[i][2])
             IN  IF ranges # <<>> THEN DictSet(paths_dict, mergeinfo_list[i][1], ranges)
                 ELSE paths_dict)

\* mergeinfo.normalize
normalize(self) ==
    IF self.normalized THEN self
    ELSE Mergeinfo(normalize_loop(SortedPaths(self.paths_dict), 1, <<>>), TRUE)

\* a variant of diff_ranges that looks at the path itself only
diff_ranges_own(prev_dict, paths, i, ranges) ==
    subtract_ranges(ranges, get_ranges(prev_dict, paths[1]))

\* get_diff: the while ranges loop; the path itself is looked up first
RECURSIVE diff_ranges(_, _, _, _)
diff_ranges(prev_dict, paths, i, ranges) ==
    IF ranges = <<>> \/ i > Len(paths) THEN ranges
    ELSE IF get_ranges(prev_dict, paths[i]) # <<>>
    THEN IF get_ranges(prev_dict, paths[i]) = ranges THEN <<>>
         ELSE diff_ranges(prev_dict, paths, i + 1,
                          subtract_ranges(ranges, get_ranges(prev_dict, paths[i])))
    ELSE diff_ranges(prev_dict, paths, i + 1, ranges)

\* get_diff: the loop over self.paths_dict
RECURSIVE get_diff_loop(_, _, _, _)
get_diff_loop(self_dict, prev_dict, i, diff) ==
    IF i > Len(self_dict) THEN diff
    ELSE get_diff_loop(self_dict, prev_dict, i + 1,
             LET ranges == diff_ranges(prev_dict,
                                       <<self_dict[i][1]>> \o parent_paths(self_dict[i][1]),
                                       1, self_dict[i][2])
             IN  IF ranges # <<>> THEN DictSet(diff, self_dict[i][1], ranges) ELSE diff)

\* mergeinfo.get_diff
get_diff(self, prev_mi) ==
    LET d == get_diff_loop(self.paths_dict, prev_mi.paths_dict, 1, <<>>)
    IN  Mergeinfo(d, IF d = <<>> THEN TRUE ELSE self.normalized)

\* tree_mergeinfo.set_mergeinfo
set_mergeinfo(t, path, src_mergeinfo) ==
    IF Len(src_mergeinfo.paths_dict) = 0 THEN DictPop(t, path)
    ELSE IF path = "" THEN DictPop(DictSet(t, path, src_mergeinfo), "..")
    ELSE DictSet(t, path, src_mergeinfo)

\* tree_mergeinfo.build_mergeinfo
RECURSIVE build_loop(_, _, _)
build_loop(t, i, new_mergeinfo) ==
    IF i > Len(t) THEN new_mergeinfo
    ELSE build_loop(t, i + 1, add_mergeinfo(new_mergeinfo, t[i][2]))

build_mergeinfo(t, norm) ==
    IF norm THEN normalize(build_loop(t, 1, NewMergeinfo))
    ELSE build_loop(t, 1, NewMergeinfo)

\* ---- inputs
MergePaths == {<<>>, <<1>>, <<1, 2>>}

\* the range sets of the svn:mergeinfo lines, among them the empty one
LineRanges == {RangesOf(S) : S \in {{}, {1, 2}, {2, 3}, {1, MaxMergeRev}}}

\* mergeinfo(svn_mergeinfo) of a property of at most two lines
ParsedMergeinfos ==
    {Mergeinfo(<<<<p, r>>>>, FALSE) : p \in MergePaths, r \in LineRanges}
    \cup {Mergeinfo(<<<<l[1], l[3]>>, <<l[2], l[4]>>>>, FALSE) :
              l \in {x \in MergePaths \X MergePaths \X (LineRanges \ {<<>>})
                                \X (LineRanges \ {<<>>}) : PathLess(x[1], x[2])}}

\* ---- actions
\* no mergeinfo is processed
MInit ==
    /\ tree_mergeinfo = <<>>
    /\ self_mergeinfo = <<>>
    /\ prev_mergeinfo = <<>>
    /\ mergeinfo_diff = <<>>
    /\ merge_sets = 0
    /\ m_pc = "tree"

\* tree_mergeinfo.set_mergeinfo(path, mergeinfo(svn_mergeinfo)) for a changed
\* svn:mergeinfo property, own or inherited
SetMergeinfo(path, src_mergeinfo) ==
    /\ m_pc \in {"tree", "built"}
    /\ merge_sets < MaxMergeSets
    /\ tree_mergeinfo' = set_mergeinfo(tree_mergeinfo, path, src_mergeinfo)
    /\ merge_sets' = merge_sets + 1
    /\ m_pc' = "tree"
    /\ UNCHANGED <<self_mergeinfo, prev_mergeinfo, mergeinfo_diff>>

\* the mergeinfo of the revision is built; the one built before is the
\* previous revision's
BuildMergeinfo(norm) ==
    /\ m_pc = "tree"
    /\ self_mergeinfo' = <<build_mergeinfo(tree_mergeinfo, norm)>>
    /\ prev_mergeinfo' = self_mergeinfo
    /\ m_pc' = "built"
    /\ UNCHANGED <<tree_mergeinfo, mergeinfo_diff, merge_sets>>

\* mergeinfo_diff = self.mergeinfo.get_diff(prev_mergeinfo)
GetDiff ==
    /\ m_pc = "built"
    /\ prev_mergeinfo # <<>>
    /\ mergeinfo_diff' = <<get_diff(self_mergeinfo[1], prev_mergeinfo[1])>>
    /\ m_pc' = "diff"
    /\ UNCHANGED <<tree_mergeinfo, self_mergeinfo, prev_mergeinfo, merge_sets>>

\* mergeinfo_diff.normalize()
Normalize ==
    /\ m_pc = "diff"
    /\ mergeinfo_diff' = <<normalize(mergeinfo_diff[1])>>
    /\ m_pc' = "normalized"
    /\ UNCHANGED <<tree_mergeinfo, self_mergeinfo, prev_mergeinfo, merge_sets>>

\* ------------------------------------------------------------ project_tree
\* The commit graph builder of project_tree.py.  brevs is the heap of
\* project_branch_rev objects (a reference is an index, None is 0).  An SVN
\* tree of a branch is known by its content: 0 is None, 1 the empty directory,
\* 2.. are directories with files; the Git tree written for a content has the
\* same number, so initial_git_tree (the empty Git tree) is 1.  A commit id is
\* the index of the commit in commits, None is 0.  revisions_to_merge is
\* <<>> for None and <<dict>> otherwise.

\* project_branch.initial_git_tree
initial_git_tree == 1

\* the branch map: branch 3 is a child branch of branch 1, merged to it lazily
Branches == 1..3

merge_parent(b) == IF b = 3 THEN 1 ELSE 0

lazy_merge_to_parent(b) == b = 3

\* branch.skip_commit_list: branch 2 has a skip_commit for revision 2
skip_commit(b, rev) == b = 2 /\ rev = 2

\* project_branch_rev(branch, prev_rev), the object only
project_branch_rev(h, b, index_seq, prev) ==
    [rev |-> 0, branch |-> b, index_seq |-> index_seq, commit |-> 0,
     staged_git_tree |-> 0, committed_git_tree |-> 0, staged_tree |-> 0,
     tree |-> IF prev = 0 THEN 0 ELSE h[prev].tree,
     prev_rev |-> prev, next_rev |-> 0,
     revisions_to_merge |-> <<>>,
     merged_revisions |-> IF prev = 0 THEN <<>> ELSE h[prev].merged_revisions,
     merged_revisions_id |-> IF prev = 0 THEN Len(h) + 1
                             ELSE h[prev].merged_revisions_id,
     parents |-> <<>>, merge_children |-> <<>>,
     changes_present |-> FALSE, any_changes_present |-> FALSE,
     need_commit |-> FALSE, skip_commit |-> FALSE,
     ready |-> FALSE, done |-> FALSE]

\* the constructor without prev_rev.next_rev = self
new_branch_rev_unlinked(h, b, index_seq, prev) ==
    Append(h, project_branch_rev(h, b, index_seq, prev))

\* the constructor: the object is appended to the heap and linked to prev_rev
new_branch_rev(h, b, index_seq, prev) ==
    LET h1 == Append(h, project_branch_rev(h, b, index_seq, prev))
    IN  IF prev = 0 THEN h1 ELSE [h1 EXCEPT ![prev].next_rev = Len(h1)]

get_merged_revision(h, self, b, index_seq) ==
    IF DictHas(h[self].merged_revisions, <<b, index_seq>>)
    THEN DictGet(h[self].merged_revisions, <<b, index_seq>>)[1]
    ELSE 0

\* the item assignment self.merged_revisions[key] = value: every object that
\* holds the dict with the identity dict_id sees the new item
RECURSIVE merged_revisions_setitem(_, _, _, _, _)
merged_revisions_setitem(h, dict_id, key, value, o) ==
    IF o > Len(h) THEN h
    ELSE merged_revisions_setitem(
             IF h[o].merged_revisions_id = dict_id
             THEN [h EXCEPT ![o].merged_revisions = DictSet(@, key, value)]
             ELSE h,
             dict_id, key, value, o + 1)

\* set_merged_revision without the copy of the dict shared with prev_rev
set_merged_revision_shared(h, self, merged_rev, merged_at_rev) ==
    merged_revisions_setitem(h, h[self].merged_revisions_id,
        <<h[merged_rev].branch, h[merged_rev].index_seq>>,
        <<merged_rev, merged_at_rev>>, 1)

\* set_merged_revision: the dict is copied when it is the one of prev_rev; the
\* copy has the identity of the object that made it.  self is a staging
\* branch-rev, which has a prev_rev.
set_merged_revision(h, self, merged_rev, merged_at_rev) ==
    merged_revisions_setitem(
        IF h[self].merged_revisions_id = h[h[self].prev_rev].merged_revisions_id
        THEN [h EXCEPT ![self].merged_revisions_id = self]
        ELSE h,
        IF h[self].merged_revisions_id = h[h[self].prev_rev].merged_revisions_id
        THEN self
        ELSE h[self].merged_revisions_id,
        <<h[merged_rev].branch, h[merged_rev].index_seq>>,
        <<merged_rev, merged_at_rev>>, 1)

is_merged_from(h, self, rev_info) ==
    IF h[rev_info].branch = h[self].branch /\ h[rev_info].index_seq = h[self].index_seq
    THEN TRUE
    ELSE LET merged_rev == get_merged_revision(h, self, h[rev_info].branch,
                                                h[rev_info].index_seq)
         IN  merged_rev # 0 /\ h[merged_rev].rev >= h[rev_info].rev

RECURSIVE walk_back_empty_revs(_, _)
walk_back_empty_revs(h, self) ==
    IF /\ h[self].prev_rev # 0
       /\ h[h[self].prev_rev].rev # 0
       /\ ~h[self].any_changes_present
       /\ Len(h[self].parents) < 2
    THEN walk_back_empty_revs(h, h[self].prev_rev)
    ELSE self

\* the loop of add_parent_revision over add_rev.merged_revisions.values()
RECURSIVE inherit_merged_revisions(_, _, _, _)
inherit_merged_revisions(h, self, add_rev, i) ==
    IF i > Len(h[add_rev].merged_revisions) THEN h
    ELSE LET rev_info == h[add_rev].merged_revisions[i][2][1]
             merged_on_rev == h[add_rev].merged_revisions[i][2][2]
         IN  IF merge_parent(h[rev_info].branch) = h[add_rev].branch
                \/ is_merged_from(h, self, rev_info)
             THEN inherit_merged_revisions(h, self, add_rev, i + 1)
             ELSE inherit_merged_revisions(
                      set_merged_revision(h, self, rev_info, merged_on_rev),
                      self, add_rev, i + 1)

\* add_parent_revision from self.revisions_to_merge[key] = add_rev on
set_revision_to_merge(h, self, add_rev) ==
    LET key == <<h[add_rev].branch, h[add_rev].index_seq>>
        pending == IF h[self].revisions_to_merge = <<>> THEN <<>>
                   ELSE h[self].revisions_to_merge[1]
        h1 == [h EXCEPT ![self].revisions_to_merge = <<DictSet(pending, key, add_rev)>>]
    IN  IF merge_parent(h[add_rev].branch) = h[self].branch THEN h1
        ELSE inherit_merged_revisions(h1, self, add_rev, 1)

\* add_parent_revision without the test of the revision already pending
add_parent_revision_last(h, self, add_rev) ==
    IF h[add_rev].tree = 0 THEN h
    ELSE IF is_merged_from(h, self, add_rev) THEN h
    ELSE set_revision_to_merge(h, self, add_rev)

add_parent_revision(h, self, add_rev) ==
    IF h[add_rev].tree = 0 THEN h
    ELSE IF is_merged_from(h, self, add_rev) THEN h
    ELSE IF /\ h[self].revisions_to_merge # <<>>
            /\ DictHas(h[self].revisions_to_merge[1],
                       <<h[add_rev].branch, h[add_rev].index_seq>>)
            /\ h[DictGet(h[self].revisions_to_merge[1],
                         <<h[add_rev].branch, h[add_rev].index_seq>>)].rev >= h[add_rev].rev
         THEN h
    ELSE set_revision_to_merge(h, self, add_rev)

RECURSIVE mark_need_commit(_, _)
mark_need_commit(h, self) ==
    LET RECURSIVE mark_each(_, _, _)
        mark_each(h1, rev_infos, i) ==
            IF i > Len(rev_infos) THEN h1
            ELSE mark_each(mark_need_commit(h1, rev_infos[i]), rev_infos, i + 1)
    IN  IF h[self].need_commit THEN h
        ELSE mark_each([h EXCEPT ![self].need_commit = TRUE],
                       SubSeq(h[self].parents, 2, Len(h[self].parents))
                           \o h[self].merge_children, 1)

\* tree_is_similar on contents: the directories with files are variants of
\* one set of files, an empty directory is similar to nothing
tree_is_similar(tree, source) == tree > 1 /\ source > 1

\* get_staging_base: HEAD, or the first pending parent with a similar tree
\* when HEAD has staged no tree (all branches use one tree prefix)
get_staging_base(h, self, HEAD) ==
    LET pending == IF h[self].revisions_to_merge = <<>> THEN <<>>
                   ELSE h[self].revisions_to_merge[1]
        Fits(i) == /\ h[pending[i][2]].staged_tree # 0
                   /\ \/ h[self].tree = h[pending[i][2]].staged_tree
                      \/ tree_is_similar(h[self].tree, h[pending[i][2]].staged_tree)
    IN  IF h[HEAD].staged_tree = 0 /\ \E i \in 1..Len(pending) : Fits(i)
        THEN pending[CHOOSE i \in 1..Len(pending) :
                         Fits(i) /\ \A j \in 1..(i - 1) : ~Fits(j)][2]
        ELSE HEAD

\* the loop of process_parent_revisions over revisions_to_merge.values()
RECURSIVE process_revisions_to_merge(_, _, _, _)
process_revisions_to_merge(h, self, pending, i) ==
    IF i > Len(pending) THEN h
    ELSE IF is_merged_from(h, self, pending[i][2])
         THEN process_revisions_to_merge(h, self, pending, i + 1)
    ELSE LET parent_rev == pending[i][2]
             h1 == set_merged_revision(h, self, parent_rev, self)
             h2 == IF h1[parent_rev].tree = h1[self].tree /\ h1[self].parents = <<>>
                   THEN [h1 EXCEPT ![self].changes_present = FALSE,
                                   ![self].any_changes_present = FALSE]
                   ELSE h1
         IN  IF /\ merge_parent(h2[parent_rev].branch) = h2[self].branch
                /\ lazy_merge_to_parent(h2[parent_rev].branch)
             THEN process_revisions_to_merge(
                      [h2 EXCEPT ![self].merge_children = Append(@, parent_rev)],
                      self, pending, i + 1)
             ELSE process_revisions_to_merge(
                      [mark_need_commit(h2, parent_rev) EXCEPT
                           ![self].parents = Append(@, parent_rev)],
                      self, pending, i + 1)

\* process_parent_revisions that leaves the revisions to merge aside: HEAD is
\* the only parent
process_parent_revisions_head(h, self, HEAD) ==
    IF h[HEAD].tree # 0 \/ h[HEAD].commit # 0
    THEN [h EXCEPT ![self].parents = Append(@, HEAD)]
    ELSE h

\* process_parent_revisions; the revision changes no svn:mergeinfo and the
\* branch has no orphan parent
process_parent_revisions(h, self, HEAD) ==
    LET h1 == IF h[HEAD].tree # 0 \/ h[HEAD].commit # 0
              THEN [h EXCEPT ![self].parents = Append(@, HEAD)]
              ELSE h
        h2 == IF h1[self].revisions_to_merge = <<>> THEN h1
              ELSE process_revisions_to_merge(h1, self, h1[self].revisions_to_merge[1], 1)
    IN  IF h2[self].changes_present
           \/ (h2[HEAD].staged_tree = 0 /\ h2[self].merge_children # <<>>)
        THEN IF h2[HEAD].merge_children # <<>>
             THEN mark_need_commit(mark_need_commit(h2, self), HEAD)
             ELSE mark_need_commit(h2, self)
        ELSE IF h2[HEAD].staged_tree = 0 /\ h2[HEAD].merge_children # <<>>
             THEN mark_need_commit(h2, HEAD)
        ELSE h2

\* build_stagelist from get_stagelist on, for the staging base HEAD: the
\* stagelist is empty when the tree has the files of the base; own tells
\* whether a change lies outside the child merge directories.  The Git tree
\* is the one write-tree gives once the changes are staged.
stage_changes(h, self, HEAD, own) ==
    LET Files(t) == IF t = 0 THEN 1 ELSE t
        changed == Files(h[self].tree) # Files(h[HEAD].tree)
    IN  [h EXCEPT ![self].changes_present = IF changed /\ own THEN TRUE ELSE @,
                  ![self].staged_tree = h[self].tree,
                  ![self].any_changes_present = changed,
                  ![self].staged_git_tree = IF changed THEN h[self].tree
                                            ELSE h[HEAD].staged_git_tree]

build_stagelist(h, self, HEAD, own) ==
    stage_changes(process_parent_revisions(h, self, get_staging_base(h, self, HEAD)),
                  self, get_staging_base(h, self, HEAD), own)

\* set_rev_info without the records of the revisions in between
set_rev_info_unfilled(br, rev, rev_info) ==
    IF br.revisions # <<>> /\ rev < br.first_revision THEN br
    ELSE LET first == IF br.revisions = <<>> THEN rev ELSE br.first_revision
             n == rev - first
             total == Len(br.revisions)
         IN  IF n < total
             THEN [br EXCEPT !.revisions[n + 1] = rev_info]
             ELSE [br EXCEPT !.first_revision = first,
                             !.revisions = Append(@, rev_info)]

\* project_branch.set_rev_info on [revisions, first_revision]
set_rev_info(br, rev, rev_info) ==
    IF br.revisions # <<>> /\ rev < br.first_revision THEN br
    ELSE LET first == IF br.revisions = <<>> THEN rev ELSE br.first_revision
             n == rev - first
             total == Len(br.revisions)
         IN  IF n < total
             THEN [br EXCEPT !.revisions[n + 1] = rev_info]
             ELSE [br EXCEPT !.first_revision = first,
                             !.revisions = @ \o [k \in 1..(n - total) |-> @[total]]
                                             \o <<rev_info>>]

\* project_branch.get_revision(rev)
branch_get_revision(br, rev) ==
    IF rev <= 0 \/ br.revisions = <<>> THEN br.HEAD
    ELSE IF rev - br.first_revision < 0 THEN 0
    ELSE IF rev - br.first_revision >= Len(br.revisions)
         THEN br.revisions[Len(br.revisions)]
    ELSE br.revisions[rev - br.first_revision + 1]

\* the fast forward test of finalize_commit
fast_forward(h, rev_info) ==
    /\ Len(h[rev_info].parents) = 2
    /\ h[h[rev_info].parents[2]].committed_git_tree = h[rev_info].staged_git_tree
    /\ h[h[rev_info].parents[2]].committed_git_tree # initial_git_tree
    /\ LET merged_to_parent_rev ==
               get_merged_revision(h, h[rev_info].parents[2], h[rev_info].branch,
                                   h[rev_info].index_seq)
       IN  /\ merged_to_parent_rev # 0
           /\ walk_back_empty_revs(h, merged_to_parent_rev)
                  = walk_back_empty_revs(h, h[rev_info].parents[1])

\* the loop of finalize_commit over rev_info.parents;
\* acc is [need_commit, parent_commits, base_rev]
RECURSIVE parent_commits_loop(_, _, _, _, _)
parent_commits_loop(h, rev_info, parents, i, acc) ==
    IF i > Len(parents) THEN acc
    ELSE LET parent_rev == h[parents[i]]
         IN  IF parent_rev.commit = 0
             THEN parent_commits_loop(h, rev_info, parents, i + 1,
                      IF /\ ~h[rev_info].skip_commit
                         /\ parent_rev.committed_git_tree = initial_git_tree
                         /\ h[rev_info].staged_git_tree # parent_rev.committed_git_tree
                      THEN [acc EXCEPT !.need_commit = TRUE]
                      ELSE acc)
             ELSE IF \E k \in 1..Len(acc.parent_commits) :
                         acc.parent_commits[k] = parent_rev.commit
                  THEN parent_commits_loop(h, rev_info, parents, i + 1, acc)
             ELSE parent_commits_loop(h, rev_info, parents, i + 1,
                      [acc EXCEPT
                           !.parent_commits = Append(@, parent_rev.commit),
                           !.base_rev =
                               IF @ = 0 \/ h[@].committed_git_tree = initial_git_tree
                               THEN parents[i] ELSE @])

\* the merge children with a commit of their own become parents;
\* acc is [parents, parent_commits]
RECURSIVE merge_children_loop(_, _, _, _)
merge_children_loop(h, merge_children, i, acc) ==
    IF i > Len(merge_children) THEN acc
    ELSE IF /\ h[merge_children[i]].commit # 0
            /\ \A k \in 1..Len(acc.parent_commits) :
                   acc.parent_commits[k] # h[merge_children[i]].commit
         THEN merge_children_loop(h, merge_children, i + 1,
                  [parents |-> Append(acc.parents, merge_children[i]),
                   parent_commits |-> Append(acc.parent_commits,
                                             h[merge_children[i]].commit)])
    ELSE merge_children_loop(h, merge_children, i + 1, acc)

\* no commit is made: the merge children and need_commit are carried over to
\* next_rev
RECURSIVE carry_over(_, _, _, _)
carry_over(h, rev_info, next_rev, i) ==
    IF i > Len(h[rev_info].merge_children) THEN h
    ELSE LET merge_child_rev == h[rev_info].merge_children[i]
             h1 == IF \E k \in 1..Len(h[next_rev].merge_children) :
                          h[h[next_rev].merge_children[k]].branch
                              = h[merge_child_rev].branch
                   THEN h
                   ELSE [h EXCEPT ![next_rev].merge_children = Append(@, merge_child_rev)]
         IN  carry_over(IF h[rev_info].need_commit
                        THEN [h1 EXCEPT ![next_rev].need_commit = TRUE]
                        ELSE h1,
                        rev_info, next_rev, i + 1)

\* finalize_commit from the commit decision on; loop is the result of the
\* loop over the parents, merged the one of the loop over the merge children
commit_decision(h, cs, rev_info, loop, merged) ==
    LET staged == h[rev_info].staged_git_tree
        parent_git_tree == IF loop.base_rev # 0
                           THEN h[loop.base_rev].committed_git_tree
                           ELSE initial_git_tree
        need_commit ==
            IF Len(merged.parent_commits) > 1 THEN TRUE
            ELSE IF staged = parent_git_tree THEN FALSE
            ELSE IF ~h[rev_info].skip_commit /\ h[rev_info].changes_present THEN TRUE
            ELSE loop.need_commit
        h1 == [h EXCEPT ![rev_info].parents = merged.parents]
    IN  IF need_commit
        THEN [commits |-> Append(cs, [tree |-> staged, parents |-> merged.parent_commits]),
              brevs |-> [h1 EXCEPT ![rev_info].committed_git_tree = staged,
                                   ![rev_info].commit = Len(cs) + 1,
                                   ![rev_info].done = TRUE]]
        ELSE [commits |-> cs,
              brevs |-> [carry_over(h1, rev_info, h1[rev_info].next_rev, 1) EXCEPT
                             ![rev_info].committed_git_tree = parent_git_tree,
                             ![rev_info].commit = IF loop.base_rev # 0
                                                   THEN h[loop.base_rev].commit ELSE 0,
                             ![rev_info].done = TRUE]]

merge_children_added(h, cs, rev_info, parents, loop) ==
    commit_decision(h, cs, rev_info, loop,
        IF loop.need_commit
        THEN merge_children_loop(h, h[rev_info].merge_children, 1,
                 [parents |-> parents, parent_commits |-> loop.parent_commits])
        ELSE [parents |-> parents, parent_commits |-> loop.parent_commits])

\* finalize_commit without the fast forward test
finalize_commit_all(h, cs, rev_info) ==
    merge_children_added(h, cs, rev_info, h[rev_info].parents,
        parent_commits_loop(h, rev_info, h[rev_info].parents, 1,
            [need_commit |-> h[rev_info].need_commit, parent_commits |-> <<>>,
             base_rev |-> 0]))

\* project_branch.finalize_commit(rev_info): [commits, brevs] afterwards
finalize_commit(h, cs, rev_info) ==
    IF fast_forward(h, rev_info)
    THEN merge_children_added(h, cs, rev_info, Tail(h[rev_info].parents),
             parent_commits_loop(h, rev_info, Tail(h[rev_info].parents), 1,
                 [need_commit |-> h[rev_info].need_commit, parent_commits |-> <<>>,
                  base_rev |-> 0]))
    ELSE merge_children_added(h, cs, rev_info, h[rev_info].parents,
             parent_commits_loop(h, rev_info, h[rev_info].parents, 1,
                 [need_commit |-> h[rev_info].need_commit, parent_commits |-> <<>>,
                  base_rev |-> 0]))

\* ---- actions
\* init_head_rev of every branch: HEAD with the empty Git tree staged, and the
\* stage after it; HEAD has no work to wait for
PInit ==
    /\ brevs = [i \in 1..(2 * 3) |->
                   IF i % 2 = 1
                   THEN [project_branch_rev(<<>>, (i + 1) \div 2, 0, 0) EXCEPT
                             !.staged_git_tree = initial_git_tree,
                             !.next_rev = i + 1, !.done = TRUE,
                             !.merged_revisions_id = i]
                   ELSE [project_branch_rev(<<>>, i \div 2, 0, 0) EXCEPT
                             !.prev_rev = i - 1, !.merged_revisions_id = i - 1]]
    /\ branches = [b \in Branches |->
                      [HEAD |-> 2 * b - 1, stage |-> 2 * b, index_seq |-> 0,
                       revisions |-> <<>>, first_revision |-> 0, finished |-> FALSE]]
    /\ commits = <<>>
    /\ p_rev = 0
    /\ p_changed = {}
    /\ p_run = FALSE
    /\ p_pc = [op |-> "init", self |-> 0, add |-> 0]

\* the work item of rev_info can run: it is ready and what it depends on is done
runnable(h, rev_info) ==
    /\ h[rev_info].ready
    /\ ~h[rev_info].done
    /\ h[rev_info].staged_tree # 0
    /\ \A k \in 1..Len(h[rev_info].parents) : h[h[rev_info].parents[k]].done
    /\ \A k \in 1..Len(h[rev_info].merge_children) : h[h[rev_info].merge_children[k]].done

\* the branches other than b whose stage has a pending parent: the nodes of a
\* revision are taken branch by branch, and a branch that is given a parent is
\* changed, so it is prepared in the revision
pending_branches(b) ==
    {c \in Branches \ {b} : brevs[branches[c].stage].revisions_to_merge # <<>>}

\* load() gets the next revision once the executor, started when the changed
\* branches are prepared, has run what can run; a revision that changes no
\* branch is passed over
GetNextRevision ==
    /\ p_rev = 0 \/ p_changed # {}
    /\ \A b \in Branches : ~branches[b].finished
    /\ \A i \in 1..Len(brevs) : ~runnable(brevs, i)
    /\ pending_branches(0) = {}
    /\ p_rev' = p_rev + 1
    /\ p_changed' = {}
    /\ p_run' = FALSE
    /\ p_pc' = [op |-> "revision", self |-> 0, add |-> 0]
    /\ UNCHANGED <<brevs, branches, commits>>

NextRevision ==
    /\ p_rev < MaxCommitRev
    /\ GetNextRevision

\* branch.add_branch_to_merge(source_branch, rev_to_merge) for a copy source
\* or a merged revision, while the nodes of the revision are applied
AddBranchToMerge(b, source_branch, rev_to_merge) ==
    /\ p_rev >= 1
    /\ ~p_run
    /\ b \notin p_changed
    /\ pending_branches(b) = {}
    /\ ~branches[b].finished
    /\ branch_get_revision(branches[source_branch], rev_to_merge) # 0
    /\ brevs' = add_parent_revision(brevs, branches[b].stage,
                    branch_get_revision(branches[source_branch], rev_to_merge))
    /\ p_pc' = [op |-> "add", self |-> branches[b].stage,
                add |-> branch_get_revision(branches[source_branch], rev_to_merge)]
    /\ UNCHANGED <<branches, commits, p_rev, p_changed, p_run>>

\* prepare_commit(revision) of a changed branch whose directory is in the
\* tree of the revision, then the merge of the new HEAD of a child branch into
\* the stage of its merge parent
PrepareCommitRev(b, tree, own) ==
    /\ p_rev >= 1
    /\ ~p_run
    /\ b \notin p_changed
    /\ pending_branches(b) = {}
    /\ merge_parent(b) \notin p_changed
    /\ ~branches[b].finished
    /\ LET rev_info == branches[b].stage
           HEAD == branches[b].HEAD
           h1 == [brevs EXCEPT ![rev_info].tree = tree, ![rev_info].rev = p_rev,
                               ![rev_info].skip_commit = skip_commit(b, p_rev)]
           h2 == new_branch_rev(build_stagelist(h1, rev_info, HEAD, own),
                                b, branches[b].index_seq, rev_info)
           h3 == [h2 EXCEPT ![HEAD].ready = TRUE]
       IN  /\ brevs' = IF merge_parent(b) # 0
                       THEN add_parent_revision(h3, branches[merge_parent(b)].stage,
                                                rev_info)
                       ELSE h3
           /\ branches' = [branches EXCEPT
                  ![b] = [set_rev_info(@, p_rev, rev_info) EXCEPT
                              !.HEAD = rev_info, !.stage = Len(h2)]]
           /\ p_pc' = [op |-> "prepare", self |-> rev_info, add |-> 0]
    /\ p_changed' = p_changed \cup {b}
    /\ UNCHANGED <<commits, p_rev, p_run>>

PrepareCommit(b, tree, own) ==
    /\ Len(brevs) < MaxBranchRevs
    /\ PrepareCommitRev(b, tree, own)

\* the end of the history: branch.ready() of every branch
EndOfHistory ==
    /\ p_rev >= 1
    /\ \A i \in 1..Len(brevs) : ~runnable(brevs, i)
    /\ \A b \in Branches : ~branches[b].finished
    /\ pending_branches(0) = {}
    /\ LET RECURSIVE ready_all(_, _)
           ready_all(h, b) ==
               IF b > 3 THEN h
               ELSE ready_all([mark_need_commit(h, branches[b].HEAD) EXCEPT
                                   ![branches[b].HEAD].ready = TRUE], b + 1)
       IN  brevs' = ready_all(brevs, 1)
    /\ branches' = [b \in Branches |-> [branches[b] EXCEPT !.finished = TRUE]]
    /\ p_run' = TRUE
    /\ p_pc' = [op |-> "end", self |-> 0, add |-> 0]
    /\ UNCHANGED <<commits, p_rev, p_changed>>

\* the executor runs finalize_commit(rev_info), at the end of load() and at
\* the end of the history
Finalized(r, rev_info) ==
    /\ brevs' = r.brevs
    /\ commits' = r.commits
    /\ p_run' = TRUE
    /\ p_pc' = [op |-> "finalize", self |-> rev_info, add |-> 0]
    /\ UNCHANGED <<branches, p_rev, p_changed>>

FinalizeCommit(rev_info) ==
    /\ rev_info \in 1..Len(brevs)
    /\ runnable(brevs, rev_info)
    /\ Finalized(finalize_commit(brevs, commits, rev_info), rev_info)

\* ---- deleted branches
\* The directories of the branches: branch 1 is at <<1>>, branch 2 at <<2>>
\* and branch 3, the child branch of branch 1, at <<1, 1>>.  A path is the
\* sequence of its names; <<>> is the root directory.
branch_path(b) == IF b = 1 THEN <<1>> ELSE IF b = 2 THEN <<2>> ELSE <<1, 1>>

\* the nodes of self.branches that hold a branch, as the iterator of the
\* path tree gives them: a node before the nodes below it
branches_iter == <<1, 3, 2>>

\* self.branches.get_node(path, match_full_path=True)
branches_get_node(path) == \E b \in Branches : IsPrefix(path, branch_path(b))

\* reversed(list(iter(tree_node))) for the node at path, the nodes without a
\* branch left out
reversed_iter(path) ==
    LET under == SelectSeq(branches_iter, LAMBDA b : IsPrefix(path, branch_path(b)))
    IN  [i \in 1..Len(under) |-> under[Len(under) + 1 - i]]

\* project_branch.init_head_rev on the heap: HEAD, then the stage after it
init_head_rev(h, b, index_seq) ==
    LET h1 == new_branch_rev(h, b, index_seq, 0)
        h2 == [h1 EXCEPT ![Len(h1)].staged_git_tree = initial_git_tree,
                         ![Len(h1)].done = TRUE]
    IN  new_branch_rev(h2, b, index_seq, Len(h2))

\* project_branch.delete without the new index: the deletion is recorded and
\* the branch goes on with its HEAD
delete_same_index(s, b, rev) ==
    LET HEAD == s.branches[b].HEAD
        rev_info == s.branches[b].stage
    IN  IF s.brevs[HEAD].tree = 0 /\ s.brevs[HEAD].commit = 0 THEN s
        ELSE [s EXCEPT !.brevs = [mark_need_commit(@, HEAD) EXCEPT
                                      ![HEAD].ready = TRUE, ![rev_info].rev = rev],
                       !.branches[b] = set_rev_info(@, rev, rev_info),
                       !.deleted_revs = Append(@, rev_info)]

\* project_branch.delete(revision) of branch b; s is [brevs, branches,
\* deleted_revs]
branch_delete(s, b, rev) ==
    LET HEAD == s.branches[b].HEAD
        rev_info == s.branches[b].stage
    IN  IF s.brevs[HEAD].tree = 0 /\ s.brevs[HEAD].commit = 0 THEN s
        ELSE LET h1 == [mark_need_commit(s.brevs, HEAD) EXCEPT
                            ![HEAD].ready = TRUE, ![rev_info].rev = rev]
                 h2 == init_head_rev(h1, b, s.branches[b].index_seq + 1)
             IN  [brevs |-> h2,
                  branches |-> [s.branches EXCEPT
                      ![b] = [set_rev_info(@, rev, rev_info) EXCEPT
                                  !.index_seq = @ + 1,
                                  !.HEAD = Len(h2) - 1, !.stage = Len(h2)]],
                  deleted_revs |-> Append(s.deleted_revs, rev_info)]

\* the loop of apply_node over the branches of the deleted directory
RECURSIVE delete_branches(_, _, _, _)
delete_branches(s, deleted, rev, i) ==
    IF i > Len(deleted) THEN s
    ELSE delete_branches(branch_delete(s, deleted[i], rev), deleted, rev, i + 1)

\* apply_node of a delete, hide or replace node that the path filter lets
\* through, for the directory at path; s is the result of the loop.  The new
\* tree of the directory, if the node leaves one, is given when the branch is
\* prepared at the end of the revision.
DeletedNode(path, s) ==
    /\ brevs' = s.brevs
    /\ branches' = s.branches
    /\ deleted_revs' = s.deleted_revs
    /\ deleted_path' = path
    /\ p_pc' = [op |-> "delete", self |-> 0, add |-> 0]
    /\ UNCHANGED <<commits, p_rev, p_changed, p_run>>

DeleteNode(path) ==
    /\ p_rev >= 1
    /\ ~p_run
    /\ p_changed = {}
    /\ \A b \in Branches : ~branches[b].finished
    /\ branches_get_node(path)
    /\ Len(brevs) + 2 * Len(reversed_iter(path)) <= MaxDeletedBranchRevs
    /\ DeletedNode(path,
           delete_branches([brevs |-> brevs, branches |-> branches,
                            deleted_revs |-> deleted_revs],
                           reversed_iter(path), p_rev, 1))

\* ------------------------------------------------------ merged revisions
\* The mergeinfo difference of a revision of a branch, for the path that is
\* the directory of another branch.  The merged revisions of a path are a set
\* of revision numbers and the added ranges are the ranges of the added set.
\* A tree holds up to two files, an ordinary one and one that matches
\* branch.ignore_unmerged: tree = 1 + 2 * (version of the ordinary file)
\* + (version of the matched file), where version 0 is no file.

\* the version of the file that no IgnoreUnmerged specification matches, 0
\* when the tree has no such file
ordinary_file(tree) == IF tree > 1 THEN (tree - 1) \div 2 ELSE 0

\* the test of can_recreate_merge on tree.compare(prev tree): every file in
\* the difference matches ignore_unmerged (directories are passed over)
ignore_unmerged_fullmatch(tree, prev_tree) == ordinary_file(tree) = ordinary_file(prev_tree)

SetMax(S) == CHOOSE x \in S : \A y \in S : y <= x

\* is_merged_from(rev_info, skip_empty_revs=True)
is_merged_from_skip_empty_revs(h, self, rev_info) ==
    IF h[rev_info].branch = h[self].branch /\ h[rev_info].index_seq = h[self].index_seq
    THEN TRUE
    ELSE LET merged_rev == get_merged_revision(h, self, h[rev_info].branch,
                                                h[rev_info].index_seq)
         IN  merged_rev # 0
             /\ h[merged_rev].rev >= h[walk_back_empty_revs(h, rev_info)].rev

\* the loop of find_unmerged_ranges over rev_to_merge.merged_revisions
RECURSIVE unmerged_ancestor_ranges(_, _, _, _)
unmerged_ancestor_ranges(h, self, merged, i) ==
    IF i > Len(merged) THEN <<>>
    ELSE LET rev_info == walk_back_empty_revs(h, merged[i][2][1])
             merged_rev == get_merged_revision(h, self, h[rev_info].branch,
                                                h[rev_info].index_seq)
         IN  IF \/ /\ h[rev_info].branch = h[self].branch
                   /\ h[rev_info].index_seq = h[self].index_seq
                \/ merged_rev # 0 /\ h[merged_rev].rev >= h[rev_info].rev
             THEN unmerged_ancestor_ranges(h, self, merged, i + 1)
             ELSE <<<<merged_rev, rev_info>>>>
                      \o unmerged_ancestor_ranges(h, self, merged, i + 1)

\* find_unmerged_ranges(rev_to_merge, traverse_ancestor_branches=True): the
\* pairs <<merged revision or 0, revision to merge>>
find_unmerged_ranges(h, self, rev_to_merge) ==
    LET rev_info == walk_back_empty_revs(h, rev_to_merge)
        merged_rev == get_merged_revision(h, self, h[rev_info].branch,
                                           h[rev_info].index_seq)
    IN  IF merged_rev # 0 /\ h[merged_rev].rev >= h[rev_info].rev THEN <<>>
        ELSE <<<<merged_rev, rev_info>>>>
                 \o unmerged_ancestor_ranges(h, self, h[rev_info].merged_revisions, 1)

\* self.get_merged_at_revision(rev_info, traverse_ancestor_branches=True);
\* n bounds the steps from branch to branch
RECURSIVE get_merged_at_revision(_, _, _, _, _)
get_merged_at_revision(h, self, rev_info, index_seq, n) ==
    IF ~DictHas(h[self].merged_revisions, <<h[rev_info].branch, index_seq>>) THEN 0
    ELSE LET merged_at_rev ==
                 DictGet(h[self].merged_revisions, <<h[rev_info].branch, index_seq>>)[2]
         IN  IF \/ /\ h[merged_at_rev].branch = h[self].branch
                   /\ h[merged_at_rev].index_seq = h[self].index_seq
                \/ n = 0
             THEN merged_at_rev
             ELSE get_merged_at_revision(h, self, merged_at_rev,
                                         h[merged_at_rev].index_seq, n - 1)

\* the while loop of can_recreate_merge over one unmerged range: FALSE when
\* it returns False
RECURSIVE unmerged_range_ignored(_, _, _, _, _)
unmerged_range_ignored(h, added, first_rev_to_merge, last_rev_to_merge,
                       last_merged_at_revision) ==
    IF first_rev_to_merge # 0 /\ h[last_rev_to_merge].rev <= h[first_rev_to_merge].rev
    THEN TRUE
    ELSE IF last_merged_at_revision = last_rev_to_merge THEN TRUE
    ELSE LET next_last_rev_to_merge ==
                 walk_back_empty_revs(h, h[last_rev_to_merge].prev_rev)
         IN  IF /\ h[last_rev_to_merge].rev \notin added
                /\ ~ignore_unmerged_fullmatch(h[last_rev_to_merge].tree,
                                              h[next_last_rev_to_merge].tree)
             THEN FALSE
             ELSE IF h[next_last_rev_to_merge].rev = 0 THEN TRUE
             ELSE unmerged_range_ignored(h, added, first_rev_to_merge,
                                         next_last_rev_to_merge, last_merged_at_revision)

\* the for loop of can_recreate_merge; prev_merged is what prev_mergeinfo
\* holds: the merged revisions of the path of merged_branch and of no other
\* path
RECURSIVE can_recreate_ranges(_, _, _, _, _, _, _)
can_recreate_ranges(h, self, added, merged_branch, prev_merged, unmerged_ranges, i) ==
    IF i > Len(unmerged_ranges) THEN TRUE
    ELSE LET first_rev_to_merge == unmerged_ranges[i][1]
             last_rev_to_merge == unmerged_ranges[i][2]
         IN  IF /\ h[last_rev_to_merge].branch = merged_branch
                /\ prev_merged # {}
                /\ SetMax(prev_merged) >= h[last_rev_to_merge].rev
             THEN FALSE
             ELSE /\ unmerged_range_ignored(h, added, first_rev_to_merge, last_rev_to_merge,
                         get_merged_at_revision(h, last_rev_to_merge, self,
                                                h[self].index_seq, Len(h)))
                  /\ can_recreate_ranges(h, self, added, merged_branch, prev_merged,
                                         unmerged_ranges, i + 1)

\* can_recreate_merge that looks at the previous mergeinfo only and takes
\* every unmerged revision for ignorable
can_recreate_merge_prev(h, self, added, rev_to_merge, prev_merged) ==
    \A rev \in prev_merged : rev < h[walk_back_empty_revs(h, rev_to_merge)].rev

can_recreate_merge(h, self, added, rev_to_merge, prev_merged) ==
    can_recreate_ranges(h, self, added, h[rev_to_merge].branch, prev_merged,
                        find_unmerged_ranges(h, self, rev_to_merge), 1)

\* the walk of process_merge_delta back over the added ranges, from the last
\* range on, for the path of the whole branch: the revisions whose tree is
\* not the tree of the revision before
RECURSIVE cherry_pick_walk(_, _, _, _, _, _, _)
cherry_pick_walk(h, self, added_ranges, k, end, rev_to_merge, picks) ==
    LET next_range == IF k <= 1 THEN picks
                      ELSE cherry_pick_walk(h, self, added_ranges, k - 1,
                                            added_ranges[k - 1][2], rev_to_merge, picks)
        prev == h[rev_to_merge].prev_rev
    IN  IF k = 0 THEN picks
        ELSE IF end < added_ranges[k][1] THEN next_range
        ELSE IF h[rev_to_merge].rev = 0 THEN next_range
        ELSE IF is_merged_from_skip_empty_revs(h, self, rev_to_merge) THEN next_range
        ELSE IF prev = 0 \/ h[prev].tree = 0 THEN next_range
        ELSE IF h[rev_to_merge].rev <= end
             THEN IF h[prev].rev = 0
                  THEN IF k <= 1
                       THEN IF h[prev].tree # h[rev_to_merge].tree
                            THEN Append(picks, rev_to_merge) ELSE picks
                       ELSE cherry_pick_walk(h, self, added_ranges, k - 1,
                                added_ranges[k - 1][2], rev_to_merge,
                                IF h[prev].tree # h[rev_to_merge].tree
                                THEN Append(picks, rev_to_merge) ELSE picks)
                  ELSE cherry_pick_walk(h, self, added_ranges, k, h[prev].rev, prev,
                           IF h[prev].tree # h[rev_to_merge].tree
                           THEN Append(picks, rev_to_merge) ELSE picks)
        ELSE cherry_pick_walk(h, self, added_ranges, k, end, prev, picks)

\* rev_to_merge.mark_need_commit() of the recorded revisions
RECURSIVE mark_cherry_picks(_, _, _)
mark_cherry_picks(h, picks, i) ==
    IF i > Len(picks) THEN h
    ELSE mark_cherry_picks(mark_need_commit(h, picks[i]), picks, i + 1)

\* process_merge_delta from the decision on: the merge parent, or the
\* cherry-picks
merge_or_cherry_pick(h, self, rev_to_merge, added, recreate_merge) ==
    IF recreate_merge
    THEN [h |-> add_parent_revision(h, self, rev_to_merge), cherry_pick_revs |-> <<>>]
    ELSE [h |-> mark_cherry_picks(h, cherry_pick_walk(h, self, RangesOf(added),
                    Len(RangesOf(added)), SetMax(added), rev_to_merge, <<>>), 1),
          cherry_pick_revs |-> cherry_pick_walk(h, self, RangesOf(added),
                    Len(RangesOf(added)), SetMax(added), rev_to_merge, <<>>)]

\* process_merge_delta of self for a difference that adds the revisions
\* added to the path of the directory of the branch br, and nothing else
process_merge_delta(h, self, br, added, prev_merged, branch_merge) ==
    IF added = {} THEN [h |-> h, cherry_pick_revs |-> <<>>]
    ELSE IF branch_get_revision(br, SetMax(added)) = 0
    THEN [h |-> h, cherry_pick_revs |-> <<>>]
    ELSE IF is_merged_from_skip_empty_revs(h, self, branch_get_revision(br, SetMax(added)))
    THEN [h |-> h, cherry_pick_revs |-> <<>>]
    ELSE merge_or_cherry_pick(h, self, branch_get_revision(br, SetMax(added)), added,
             branch_merge /\ can_recreate_merge(h, self, added,
                                 branch_get_revision(br, SetMax(added)), prev_merged))

\* process_parent_revisions after process_merge_delta
process_revisions_to_merge_all(h, self, HEAD) ==
    LET h2 == IF h[self].revisions_to_merge = <<>> THEN h
              ELSE process_revisions_to_merge(h, self, h[self].revisions_to_merge[1], 1)
    IN  IF h2[self].changes_present
           \/ (h2[HEAD].staged_tree = 0 /\ h2[self].merge_children # <<>>)
        THEN IF h2[HEAD].merge_children # <<>>
             THEN mark_need_commit(mark_need_commit(h2, self), HEAD)
             ELSE mark_need_commit(h2, self)
        ELSE IF h2[HEAD].staged_tree = 0 /\ h2[HEAD].merge_children # <<>>
             THEN mark_need_commit(h2, HEAD)
        ELSE h2

\* self.parents.append(HEAD) of process_parent_revisions
append_head(h, self, HEAD) ==
    IF h[HEAD].tree # 0 \/ h[HEAD].commit # 0
    THEN [h EXCEPT ![self].parents = Append(@, HEAD)]
    ELSE h

\* build_stagelist of a revision that changes svn:mergeinfo
build_stagelist_merge(h, self, HEAD, own, br, added, prev_merged, branch_merge) ==
    stage_changes(
        process_revisions_to_merge_all(
            process_merge_delta(append_head(h, self, get_staging_base(h, self, HEAD)),
                                self, br, added, prev_merged, branch_merge).h,
            self, get_staging_base(h, self, HEAD)),
        self, get_staging_base(h, self, HEAD), own)

\* prepare_commit(revision) of a changed branch whose svn:mergeinfo adds the
\* revisions added for the directory of merged_branch
PrepareCommitMerge(b, tree, own, merged_branch, added) ==
    /\ p_rev >= 1
    /\ ~p_run
    /\ b \notin p_changed
    /\ pending_branches(b) = {}
    /\ merge_parent(b) \notin p_changed
    /\ ~branches[b].finished
    /\ added # {} => branches[merged_branch].revisions # <<>>
    /\ LET rev_info == branches[b].stage
           HEAD == branches[b].HEAD
           h1 == [brevs EXCEPT ![rev_info].tree = tree, ![rev_info].rev = p_rev,
                               ![rev_info].skip_commit = skip_commit(b, p_rev)]
           h2 == new_branch_rev(
                     build_stagelist_merge(h1, rev_info, HEAD, own, branches[merged_branch],
                         added, rev_mergeinfo[HEAD], recreate_merges),
                     b, branches[b].index_seq, rev_info)
           h3 == [h2 EXCEPT ![HEAD].ready = TRUE]
       IN  /\ brevs' = IF merge_parent(b) # 0
                       THEN add_parent_revision(h3, branches[merge_parent(b)].stage,
                                                rev_info)
                       ELSE h3
           /\ branches' = [branches EXCEPT
                  ![b] = [set_rev_info(@, p_rev, rev_info) EXCEPT
                              !.HEAD = rev_info, !.stage = Len(h2)]]
           /\ p_pc' = [op |-> "prepare", self |-> rev_info, add |-> 0]
           /\ rev_mergeinfo' = [rev_mergeinfo EXCEPT
                  ![rev_info] = rev_mergeinfo[HEAD] \cup added,
                  ![Len(h2)] = rev_mergeinfo[HEAD] \cup added]
           /\ cherry_pick_revs' = [cherry_pick_revs EXCEPT
                  ![rev_info] = process_merge_delta(
                      append_head(h1, rev_info, get_staging_base(h1, rev_info, HEAD)),
                      rev_info, branches[merged_branch], added, rev_mergeinfo[HEAD],
                      recreate_merges).cherry_pick_revs]
           /\ merge_pc' = [self |-> rev_info, merged_branch |-> merged_branch,
                           added |-> added]
    /\ p_changed' = p_changed \cup {b}
    /\ UNCHANGED <<commits, p_rev, p_run, recreate_merges>>

\* --------------------------------------------------- revision properties
\* A revision_props object is [revision, log]: the author and the date are
\* the ones of the revision, log is 0 for an empty message.  No SkipCommit
\* specification has a message of its own.

\* add_revision_props(revision) on props_list
add_revision_props(props, rev, log) ==
    IF props # <<>> /\ props[1].revision = rev THEN props
    ELSE <<[revision |-> rev, log |-> log]>> \o props

\* get_combined_revision_props: the author and date are the ones of the
\* first properties, the message has the paragraphs of every log
get_combined_revision_props(props, rev_info) ==
    [by |-> rev_info,
     revision |-> props[1].revision,
     logs |-> {props[k].revision : k \in {j \in 1..Len(props) : props[j].log # 0}}]

\* base_rev of finalize_commit, 0 when no parent has a commit
finalize_base_rev(h, rev_info) ==
    parent_commits_loop(h, rev_info,
        IF fast_forward(h, rev_info) THEN Tail(h[rev_info].parents)
        ELSE h[rev_info].parents, 1,
        [need_commit |-> h[rev_info].need_commit, parent_commits |-> <<>>,
         base_rev |-> 0]).base_rev

\* finalize_commit when no commit is made: the revision properties are
\* carried over to next_rev, or dropped
carry_props(h, rev_info, pl, base_rev) ==
    LET parent_git_tree == IF base_rev # 0 THEN h[base_rev].committed_git_tree
                           ELSE initial_git_tree
        prev_git_tree == IF base_rev # 0 THEN h[base_rev].staged_git_tree
                         ELSE initial_git_tree
        props == pl[rev_info]
        next_rev == h[rev_info].next_rev
    IN  IF h[rev_info].merge_children # <<>>
        THEN [pl EXCEPT ![next_rev] =
                            @ \o (IF h[rev_info].staged_git_tree = parent_git_tree
                                  THEN Tail(props) ELSE props),
                        ![rev_info] = <<>>]
        ELSE IF h[rev_info].skip_commit
        THEN [pl EXCEPT ![next_rev] =
                            (IF \/ h[rev_info].staged_git_tree = prev_git_tree
                                \/ props[Len(props)].log = 0
                             THEN SubSeq(props, 1, Len(props) - 1) ELSE props) \o @,
                        ![rev_info] = <<>>]
        ELSE [pl EXCEPT ![rev_info] = <<>>]

\* load() gets the next revision, with its log message
GetNextRevisionLog(log) ==
    /\ GetNextRevision
    /\ revision_log' = [revision_log EXCEPT ![p_rev + 1] = log]
    /\ UNCHANGED <<props_list, commit_props>>

\* prepare_commit(revision) with the revision properties that set_revision
\* adds to the stage
PrepareCommitProps(b, tree, own) ==
    /\ PrepareCommitRev(b, tree, own)
    /\ props_list' = [props_list EXCEPT ![branches[b].stage] =
                          add_revision_props(@, p_rev, revision_log[p_rev])]
    /\ UNCHANGED <<commit_props, revision_log>>

\* finalize_commit(rev_info) with the revision properties of the commit, or
\* the ones carried over
FinalizeCommitProps(rev_info) ==
    /\ FinalizeCommit(rev_info)
    /\ IF Len(commits') > Len(commits)
       THEN /\ commit_props' = Append(commit_props,
                                   get_combined_revision_props(props_list[rev_info], rev_info))
            /\ props_list' = [props_list EXCEPT ![rev_info] = <<>>]
       ELSE /\ commit_props' = commit_props
            /\ props_list' = carry_props(brevs, rev_info, props_list,
                                         finalize_base_rev(brevs, rev_info))
    /\ UNCHANGED revision_log

\* ------------------------------------------------------ blobs of the index
\* A blob object is the number of its hash: the object dictionary keeps one
\* instance of a hash, so that two blob objects differ in get_hash().  A
\* path is a number, and so is the fingerprint of the .gitattributes files
\* of a tree; the worktree of a Git environment holds these files, so that
\* the environment is known by their fingerprint.
HashBlobs == 1..MaxHashBlobs
HashPaths == 1..MaxHashPaths
HashBranches == 1..2

\* obj.fmt of the blob object: 0 - None, else the format tag
blob_fmt(blob) == IF blob = MaxHashBlobs THEN 1 ELSE 0

\* the key of build_stagelist: the digest of the hash of the object, the
\* fingerprint of the .gitattributes files, the format tag if there is a
\* format, and the path
stagelist_key(blob, attrs, item_path) ==
    IF blob_fmt(blob) # 0
    THEN <<blob, attrs, <<"format_files", blob_fmt(blob)>>, item_path>>
    ELSE <<blob, attrs, item_path>>

\* format_files.format_data(data, fmt, error_handler)
format_data(blob_data, fmt) == <<blob_data, fmt>>

\* git_repo.hash_object(data, path, env): git hash-object filters the data
\* as the .gitattributes files of the environment tell for the path
git_hash_object(blob_data, item_path, env) ==
    [data |-> blob_data, path |-> item_path, env |-> env]

\* project_branch.hash_object without the write to sha1_map
hash_object(work) ==
    git_hash_object(IF work.fmt # 0 THEN format_data(work.data, work.fmt)
                    ELSE work.data,
                    work.path, work.git_env)

\* git_blob.get_git_sha1: str() of the string, or of the work item, which
\* is the result of its function
get_git_sha1(v, work) == IF v[1] = "str" THEN v[2] ELSE work[v[2]].result[1]

\* the loop of build_stagelist over the items from item i on;
\* s is [git_sha1, sha1_map, hash_work]
RECURSIVE hash_stagelist(_, _, _, _, _)
hash_stagelist(s, prev_map, stagelist, attrs, i) ==
    IF i > Len(stagelist) THEN s
    ELSE LET blob == stagelist[i].obj
             sha1 == stagelist_key(blob, attrs, stagelist[i].path)
         IN  hash_stagelist(
                 IF s.git_sha1[blob] # <<>> THEN s
                 ELSE IF DictHas(s.sha1_map, sha1)
                 THEN [s EXCEPT !.git_sha1[blob] = <<"str", DictGet(s.sha1_map, sha1)>>]
                 ELSE IF DictHas(prev_map, sha1)
                 THEN [s EXCEPT !.sha1_map = DictSet(@, sha1, DictGet(prev_map, sha1)),
                                !.git_sha1[blob] = <<"str", DictGet(prev_map, sha1)>>]
                 ELSE [s EXCEPT !.git_sha1[blob] = <<"async_workitem", Len(s.hash_work) + 1>>,
                                !.hash_work = Append(@,
                                    [data |-> blob, path |-> stagelist[i].path,
                                     sha1 |-> sha1, fmt |-> blob_fmt(blob),
                                     git_env |-> attrs, result |-> <<>>])],
                 prev_map, stagelist, attrs, i + 1)

\* the work items staging_info depends on have run
hashes_done(stagelist, blobs, work) ==
    \A i \in 1..Len(stagelist) :
        blobs[stagelist[i].obj][1] = "async_workitem"
            => work[blobs[stagelist[i].obj][2]].result # <<>>

\* ---- inputs
\* the stagelists of a revision: the items that add or change a blob, in the
\* order of their paths
HashStagelists ==
    {<<[path |-> q, obj |-> blob]>> : q \in HashPaths, blob \in HashBlobs}
    \cup {<<[path |-> 1, obj |-> blob1], [path |-> 2, obj |-> blob2]>> :
              blob1 \in HashBlobs, blob2 \in HashBlobs}

\* the sha1 map of an earlier run: none, or the one written by a run that
\* hashed the blob 1 at the path 1
PrevSha1Maps ==
    {<<>>, <<<<stagelist_key(1, 1, 1), git_hash_object(1, 1, 1)>>>>}

\* ---- actions
GIdle ==
    /\ git_sha1 = [blob \in HashBlobs |-> <<>>]
    /\ sha1_map = <<>>
    /\ gitattributes_sha1 = [b \in HashBranches |-> 0]
    /\ hash_work = <<>>
    /\ stagelists = <<>>
    /\ update_index = <<>>
    /\ g_pc = [op |-> "init", self |-> 0]

GInit == GIdle /\ prev_sha1_map = <<>>

\* build_stagelist of a branch revision from the stagelist on: attrs is the
\* fingerprint make_gitattributes_tree gives, the one of the branch when no
\* .gitattributes file has changed
BuildStagelistHash(b, stagelist, attrs) ==
    /\ Len(stagelists) < MaxStagelists
    /\ LET s == hash_stagelist([git_sha1 |-> git_sha1, sha1_map |-> sha1_map,
                                hash_work |-> hash_work],
                               prev_sha1_map, stagelist, attrs, 1)
       IN  /\ git_sha1' = s.git_sha1
           /\ sha1_map' = s.sha1_map
           /\ hash_work' = s.hash_work
    /\ gitattributes_sha1' = [gitattributes_sha1 EXCEPT ![b] = attrs]
    /\ stagelists' = Append(stagelists, [branch |-> b, git_env |-> attrs,
                                         stagelist |-> stagelist, staged |-> FALSE])
    /\ g_pc' = [op |-> "build_stagelist", self |-> Len(stagelists) + 1]
    /\ UNCHANGED <<prev_sha1_map, update_index>>

\* the executor runs hash_object of the work item n
HashObject(n) ==
    /\ n \in 1..Len(hash_work)
    /\ hash_work[n].result = <<>>
    /\ hash_work' = [hash_work EXCEPT ![n].result = <<hash_object(hash_work[n])>>]
    /\ sha1_map' = DictSet(sha1_map, hash_work[n].sha1, hash_object(hash_work[n]))
    /\ g_pc' = [op |-> "hash_object", self |-> n]
    /\ UNCHANGED <<git_sha1, prev_sha1_map, gitattributes_sha1, stagelists, update_index>>

\* the executor runs stage_changes of the stagelist k once the work items
\* staging_info depends on have run: a line for every item
StageChanges(k) ==
    /\ k \in 1..Len(stagelists)
    /\ ~stagelists[k].staged
    /\ hashes_done(stagelists[k].stagelist, git_sha1, hash_work)
    /\ stagelists' = [stagelists EXCEPT ![k].staged = TRUE]
    /\ update_index' = update_index \o
           [i \in 1..Len(stagelists[k].stagelist) |->
               [git_env |-> stagelists[k].git_env,
                item |-> stagelists[k].stagelist[i],
                sha1 |-> get_git_sha1(git_sha1[stagelists[k].stagelist[i].obj],
                                      hash_work)]]
    /\ g_pc' = [op |-> "stage_changes", self |-> k]
    /\ UNCHANGED <<git_sha1, sha1_map, prev_sha1_map, gitattributes_sha1, hash_work>>

\* ------------------------------------------------ project_history_tree.load
\* load() of project_history_tree is at one of the positions
\*   "new"        load() has not been called
\*   "reading"    super().load(revision_reader) is reading and processing
\*   "loaded"     super().load has returned
\*   "executed"   the branches are ready and the blocked commits done
\*   "finalized"  finalize_branches and the leftover work items are done
\*   "pruned"     the refs to prune are queued for deletion
\*   "committed"  commit_refs_update has returned
\*   "saved"      the sha1 map is saved
\*   "returned", "raised"   load() has returned, or an exception has left it
\* An exception raised at a position is raised by the code that follows it.
LoadExceptions == {"Exception_svn_dump_parse", "Exception_history_parse", "KeyboardInterrupt"}

\* ThreadPoolExecutor.submit: a future is pending in the pool
executor_submit(pool) == [pool EXCEPT !.pending = @ + 1]

\* ThreadPoolExecutor.shutdown(cancel_futures=True)
executor_shutdown(pool) ==
    [pool EXCEPT !.shut = TRUE, !.cancelled = @ + pool.pending, !.pending = 0]

\* async_workitem.shutdown(): the pool of the work items is shut down
async_workitem_shutdown(pools) ==
    [pools EXCEPT !.async_workitem = executor_shutdown(@)]

\* git_repo.commit_refs_update(): the queued ref updates are written
commit_refs_update(repo) ==
    [repo EXCEPT !.refs = @ \o repo.queue, !.queue = <<>>, !.commits = @ + 1]

\* git_repo.shutdown(): the queue is not flushed
git_repo_shutdown(repo) == [repo EXCEPT !.shut = TRUE]

\* project_history_tree.shutdown() on [pools, repo, dir]
shutdown(s) ==
    [pools |-> [s.pools EXCEPT
                    !.futures_executor = executor_shutdown(@),
                    !.write_tree_executor = executor_shutdown(@)],
     repo |-> git_repo_shutdown(s.repo),
     dir |-> "removed"]

\* a finally clause that does not call self.shutdown()
load_finally_no_shutdown(s) == [s EXCEPT !.pools = async_workitem_shutdown(@)]

\* the finally clause of load()
load_finally(s) == shutdown([s EXCEPT !.pools = async_workitem_shutdown(@)])

\* ---- actions
LIdle ==
    /\ l_pc = "new"
    /\ l_exc = ""
    /\ l_raised_at = ""
    /\ l_rev = 0
    /\ target_repo = FALSE
    /\ executors = [p \in {"async_workitem", "futures_executor", "write_tree_executor"} |->
                        [shut |-> FALSE, pending |-> 0, cancelled |-> 0]]
    /\ git_repo = [queue |-> <<>>, refs |-> <<>>, commits |-> 0, shut |-> FALSE]
    /\ git_working_directory = "none"

LoadState == [pools |-> executors, repo |-> git_repo, dir |-> git_working_directory]

Loaded(s) ==
    /\ executors' = s.pools
    /\ git_repo' = s.repo
    /\ git_working_directory' = s.dir

\* load() up to the try statement: without a Git repository super().load is
\* called outside of it
LoadBegin(repo) ==
    /\ l_pc = "new"
    /\ l_pc' = "reading"
    /\ target_repo' = repo
    /\ git_working_directory' = IF repo THEN "made" ELSE git_working_directory
    /\ UNCHANGED <<l_exc, l_raised_at, l_rev, executors, git_repo>>

\* super().load reads and processes a revision
LoadNextRevision ==
    /\ l_pc = "reading"
    /\ l_rev' = l_rev + 1
    /\ UNCHANGED <<l_pc, l_exc, l_raised_at, target_repo, executors, git_repo,
                   git_working_directory>>

\* a work item gives a function to a pool
LoadSubmit(p) ==
    /\ l_pc \in {"reading", "loaded", "executed"}
    /\ target_repo
    /\ l_rev > 0
    /\ executors' = [executors EXCEPT ![p] = executor_submit(@)]
    /\ UNCHANGED <<l_pc, l_exc, l_raised_at, l_rev, target_repo, git_repo,
                   git_working_directory>>

\* a worker thread of the pool runs a pending future
LoadFutureDone(p) ==
    /\ executors[p].pending > 0
    /\ executors' = [executors EXCEPT ![p].pending = @ - 1]
    /\ UNCHANGED <<l_pc, l_exc, l_raised_at, l_rev, target_repo, git_repo,
                   git_working_directory>>

\* update_ref of a commit made: git_repo.queue_update_ref(ref, sha1)
LoadQueueUpdateRef(ref) ==
    /\ l_pc \in {"reading", "loaded", "executed"}
    /\ target_repo
    /\ l_rev > 0
    /\ git_repo' = [git_repo EXCEPT !.queue = Append(@, ref)]
    /\ UNCHANGED <<l_pc, l_exc, l_raised_at, l_rev, target_repo, executors,
                   git_working_directory>>

\* the code of load() after the position l_pc runs to the next position
LoadStep ==
    /\ target_repo
    /\ l_pc \in {"reading", "loaded", "executed", "finalized", "pruned", "committed"}
    /\ l_pc' = CASE l_pc = "reading" -> "loaded"
                 [] l_pc = "loaded" -> "executed"
                 [] l_pc = "executed" -> "finalized"
                 [] l_pc = "finalized" -> "pruned"
                 [] l_pc = "pruned" -> "committed"
                 [] l_pc = "committed" -> "saved"
    /\ git_repo' = IF l_pc = "pruned" THEN commit_refs_update(git_repo) ELSE git_repo
    /\ UNCHANGED <<l_exc, l_raised_at, l_rev, target_repo, executors,
                   git_working_directory>>

\* load() returns: the finally clause has run
LoadReturn ==
    /\ \/ target_repo /\ l_pc = "saved" /\ Loaded(load_finally(LoadState))
       \/ ~target_repo /\ l_pc = "reading" /\ Loaded(LoadState)
    /\ l_pc' = "returned"
    /\ UNCHANGED <<l_exc, l_raised_at, l_rev, target_repo>>

\* an exception is raised at the position l_pc and leaves load(); one
\* raised by commit_refs_update has left none, some or all of the queue
\* written
LoadRaise(e, written) ==
    /\ l_pc \in {"reading", "loaded", "executed", "finalized", "pruned", "committed"}
    /\ l_pc # "pruned" => written = 0
    /\ written <= Len(git_repo.queue)
    /\ LET called == [git_repo EXCEPT
                          !.refs = @ \o SubSeq(git_repo.queue, 1, written),
                          !.queue = SubSeq(@, written + 1, Len(@)),
                          !.commits = @ + 1]
           s == [LoadState EXCEPT !.repo = IF l_pc = "pruned" THEN called ELSE @]
       IN  IF target_repo THEN Loaded(load_finally(s)) ELSE Loaded(s)
    /\ l_pc' = "raised"
    /\ l_exc' = e
    /\ l_raised_at' = l_pc
    /\ UNCHANGED <<l_rev, target_repo>>

\* ---------------------------------------------------- command-line scripts
Scripts == {"svn-to-git.py", "parse-svn-dump.py"}

\* the try statement around sys.exit(main()): the status the script exits
\* with when the exception e leaves main(), "" when main() returns; Python
\* exits with the status 1 when no except clause takes the exception
exit_code(script, e) ==
    CASE e = "" -> 0
      [] e = "FileNotFoundError" -> 1
      [] e = "Exception_svn_parse" -> 128
      [] e = "Exception_history_parse" -> 128
      [] e = "Exception_cfg_parse" /\ script = "svn-to-git.py" -> 128
      [] e = "KeyboardInterrupt" -> 130
      [] OTHER -> 1

\* ---- actions
EIdle ==
    /\ e_pc = "new"
    /\ e_script = ""
    /\ e_exc = ""
    /\ e_status = -1

\* the script ends: sys.exit with the status of the exception
Exit(e) ==
    /\ e_pc' = "exited"
    /\ e_exc' = e
    /\ e_status' = exit_code(e_script, e)
    /\ UNCHANGED e_script

\* the script is started: main() parses the arguments
Main(script) ==
    /\ e_pc = "new"
    /\ e_script' = script
    /\ e_pc' = "options"
    /\ UNCHANGED <<e_exc, e_status>>

\* main() of svn-to-git.py makes the project_history_tree, which reads the
\* configuration; main() of parse-svn-dump.py makes a history_reader
MainConfig(cfg_error) ==
    /\ e_pc = "options"
    /\ IF cfg_error /\ e_script = "svn-to-git.py"
       THEN Exit("Exception_cfg_parse")
       ELSE e_pc' = "reader" /\ UNCHANGED <<e_script, e_exc, e_status>>

\* svn_dump_reader(*options.in_files) opens the dump file
OpenDump(exists) ==
    /\ e_pc = "reader"
    /\ IF exists
       THEN e_pc' = "load" /\ UNCHANGED <<e_script, e_exc, e_status>>
       ELSE Exit("FileNotFoundError")

\* apply_revision of a revision read raises Exception_history_parse
HistoryParseError ==
    /\ e_pc = "load"
    /\ yielded # <<>>
    /\ rd_pc # "raised"
    /\ Exit("Exception_history_parse")

\* the user interrupts the script
Interrupt ==
    /\ e_pc \in {"options", "reader", "load"}
    /\ rd_pc # "raised"
    /\ Exit("KeyboardInterrupt")

\* read_revisions has ended: load() returns and main() with it, or the
\* exception of read_revisions leaves main()
MainEnd ==
    /\ e_pc = "load"
    /\ rd_pc \in {"done", "raised"}
    /\ Exit(rd_exc)

\* ------------------------------------------------------------------- refs
\* The ref names of project_history_tree.  A refname is a sequence of path
\* components (the text split at "/"); a component is a sequence of numbers:
\* the first stands for the text before any "___" and every further one for
\* a "___<n>" that follows, so "refs/heads/a___2" is <<<<1>>, <<3, 2>>>> when
\* 1 stands for "refs/heads" and 3 for "a".  2 stands for "refs/tags" and 5
\* for a name that ends in "@r<digits>".  The empty sequence is the empty
\* refname; a missing result (None) is <<>> and a result r is <<r>>.

\* refname + '___%d' % i
ref_suffix(refname, i) == [refname EXCEPT ![Len(refname)] = Append(@, i)]

\* tagname.removeprefix('refs/tags/')
removeprefix_tags(tagname) ==
    IF tagname # <<>> /\ Len(tagname) > 1 /\ tagname[1] = <<2>> THEN Tail(tagname) ELSE tagname

\* re.fullmatch('refs/.*@r\d+', refname)
is_revision_ref(refname) ==
    /\ refname # <<>>
    /\ refname[1] \in {<<1>>, <<2>>}
    /\ Len(refname) > 1
    /\ refname[Len(refname)] = <<5>>

\* path_tree: the paths that carry an object and the ref-usage records, each
\* kept at a node of the trie; the nodes are the prefixes of the paths set
path_tree == [paths |-> {}, used_by |-> {}]


\* path_tree.get_node(path, match_full_path=True): TRUE for a node
get_node(t, path) == \E p \in t.paths : IsPrefix(path, p)

\* path_tree.find_path(path, match_full_path=False): TRUE when a node on the
\* way to path carries an object
path_tree_find_path(t, path) == \E p \in t.paths : IsPrefix(p, path)

\* the deepest node on the way to path
deepest_node(t, path) ==
    LET on_path == {k \in 0..Len(path) : k = 0 \/ get_node(t, SubSeq(path, 1, k))}
    IN  SubSeq(path, 1, CHOOSE k \in on_path : \A j \in on_path : j <= k)

\* path_tree.get_used_by(path, key, match_full_path)
get_used_by(t, path, key, match_full_path) ==
    <<IF match_full_path THEN path ELSE deepest_node(t, path), key>> \in t.used_by

\* path_tree.set_used_by(path, key, used_by, match_full_path)
set_used_by(t, path, key, match_full_path) ==
    [t EXCEPT !.used_by =
         @ \cup {<<IF match_full_path THEN path ELSE deepest_node(t, path), key>>}]

\* path_tree.set(path, obj)
path_tree_set(t, path) == [t EXCEPT !.paths = @ \cup {path}]

\* range(1, 100) of make_unique_refname
SuffixRange == 100

\* the loop of make_unique_refname: <<new_ref>> at the break, <<>> when the
\* loop comes to its end
RECURSIVE unique_loop(_, _, _, _)
unique_loop(t, refname, new_ref, i) ==
    IF i >= SuffixRange THEN <<>>
    ELSE IF ~get_node(t, new_ref) THEN <<new_ref>>
    ELSE unique_loop(t, refname, ref_suffix(refname, i), i + 1)

\* make_unique_refname after the loop
unique_found(t, new_ref) ==
    IF path_tree_find_path(t, new_ref) /\ ~get_used_by(t, new_ref, new_ref, FALSE)
    THEN [all_refs |-> set_used_by(t, new_ref, new_ref, FALSE), ref |-> <<>>]
    ELSE [all_refs |-> set_used_by(path_tree_set(t, new_ref), new_ref, new_ref, TRUE),
          ref |-> <<new_ref>>]

\* make_unique_refname after the loop, found what the loop gave
unique_tested(t, found) ==
    IF found = <<>> THEN [all_refs |-> t, ref |-> <<>>] ELSE unique_found(t, found[1])

\* make_unique_refname that gives the requested name to every caller
make_unique_refname_same(t, refname) ==
    IF refname = <<>> THEN [all_refs |-> t, ref |-> <<>>]
    ELSE unique_found(t, refname)

\* project_history_tree.make_unique_refname(refname, path, log_file):
\* [all_refs, ref] afterwards
make_unique_refname(t, refname) ==
    IF refname = <<>> THEN [all_refs |-> t, ref |-> <<>>]
    ELSE unique_tested(t, unique_loop(t, refname, refname, 1))

\* update_ref once the name is made, on s = [all_refs, append_to_refs,
\* prune_refs, ref_updates]; unique is what make_unique_refname gave
update_ref_made(s, unique, sha1) ==
    LET s1 == [s EXCEPT !.all_refs = unique.all_refs]
    IN  IF unique.ref = <<>> \/ sha1 = 0 THEN s1
        ELSE LET ref == unique.ref[1]
                 s2 == [s1 EXCEPT !.append_to_refs = DictPop(@, ref)]
             IN  IF DictHas(s2.prune_refs, ref)
                 THEN IF sha1 = DictGet(s2.prune_refs, ref)
                      THEN [s2 EXCEPT !.prune_refs = DictPop(@, ref)]
                      ELSE [s2 EXCEPT !.prune_refs = DictPop(@, ref),
                                      !.ref_updates = Append(@, [op |-> "update_ref",
                                                                 ref |-> ref, sha1 |-> sha1])]
                 ELSE [s2 EXCEPT !.ref_updates = Append(@, [op |-> "update_ref",
                                                            ref |-> ref, sha1 |-> sha1])]

\* project_history_tree.update_ref(ref, sha1, path)
update_ref(s, ref, sha1) == update_ref_made(s, make_unique_refname(s.all_refs, ref), sha1)

\* create_tag once the name is made; git tag makes the ref refs/tags/<name>
create_tag_made(s, unique, sha1) ==
    LET s1 == [s EXCEPT !.all_refs = unique.all_refs]
    IN  IF unique.ref = <<>> \/ sha1 = 0 THEN s1
        ELSE [s1 EXCEPT !.ref_updates =
                            Append(@, [op |-> "tag",
                                       ref |-> <<<<2>>>> \o removeprefix_tags(unique.ref[1]),
                                       sha1 |-> sha1]),
                        !.append_to_refs = DictPop(@, unique.ref[1]),
                        !.prune_refs = DictPop(@, unique.ref[1])]

\* project_history_tree.create_tag(tagname, sha1, props, path)
create_tag(s, tagname, sha1) == create_tag_made(s, make_unique_refname(s.all_refs, tagname), sha1)

\* the loop of finalize_branches over append_to_refs
RECURSIVE append_refs_loop(_, _, _)
append_refs_loop(updates, append, i) ==
    IF i > Len(append) THEN updates
    ELSE append_refs_loop(Append(updates, [op |-> "update_ref", ref |-> append[i][1],
                                           sha1 |-> append[i][2]]),
                          append, i + 1)

\* the loop of load_prev_refs over the refs of the repository, prev a dict
\* refname -> sha1
RECURSIVE load_prev_refs(_, _, _)
load_prev_refs(s, prev, i) ==
    IF i > Len(prev) THEN s
    ELSE load_prev_refs(
             [s EXCEPT !.append_to_refs = DictSet(@, prev[i][1], prev[i][2]),
                       !.all_refs = IF is_revision_ref(prev[i][1])
                                    THEN path_tree_set(@, prev[i][1]) ELSE @],
             prev, i + 1)

\* ---- inputs
\* the refnames asked for: none, refs/heads/a, refs/heads/a/b,
\* refs/heads/a___2, refs/heads/c@r1 and refs/tags/a
RefNames ==
    {<<>>, <<<<1>>, <<3>>>>, <<<<1>>, <<3>>, <<4>>>>, <<<<1>>, <<3, 2>>>>,
     <<<<1>>, <<5>>>>, <<<<2>>, <<3>>>>}

\* the refname asked for over and over
ManyRef == <<<<1>>, <<3>>>>

\* the refs of an earlier run, refname -> sha1
PrevRefs ==
    {<<>>,
     << <<<<<<1>>, <<3>>>>, 1>>, <<<<<<1>>, <<5>>>>, 1>> >>,
     << <<<<<<1>>, <<3, 1>>>>, 2>>, <<<<<<2>>, <<3>>>>, 1>> >>}

\* ---- actions
RefState == [all_refs |-> all_refs, append_to_refs |-> append_to_refs,
             prune_refs |-> prune_refs, ref_updates |-> ref_updates]

SetRefState(s) ==
    /\ all_refs' = s.all_refs
    /\ append_to_refs' = s.append_to_refs
    /\ prune_refs' = s.prune_refs
    /\ ref_updates' = s.ref_updates

UInit ==
    /\ all_refs = path_tree
    /\ append_to_refs = <<>>
    /\ prune_refs = <<>>
    /\ ref_updates = <<>>
    /\ n_requests = 0
    /\ u_pc = [op |-> "init", ref |-> <<>>, ret |-> <<>>]

\* project_history_tree.__init__: the refs to prune and to append are loaded
LoadPrevRefs(prev, prune) ==
    /\ u_pc.op = "init"
    /\ SetRefState(load_prev_refs([RefState EXCEPT !.prune_refs = IF prune THEN prev ELSE <<>>],
                                  prev, 1))
    /\ u_pc' = [op |-> "load", ref |-> <<>>, ret |-> <<>>]
    /\ UNCHANGED n_requests

\* every request so far was one of ManyRef, with or without a suffix, and
\* wrote the name it got
OnlyManyRef ==
    /\ Len(ref_updates) = Cardinality(all_refs.paths)
    /\ \A i \in 1..Len(ref_updates) :
           /\ ref_updates[i].sha1 = 1
           /\ Len(ref_updates[i].ref) = Len(ManyRef)
           /\ ref_updates[i].ref[1] = ManyRef[1]
           /\ ref_updates[i].ref[2][1] = ManyRef[2][1]

\* a run makes MaxRefRequests requests of any kind, or it asks for ManyRef
\* over and over
Requests(ref, sha1) ==
    /\ u_pc.op \notin {"init", "finalize"}
    /\ IF n_requests < MaxRefRequests THEN TRUE
       ELSE ref = ManyRef /\ sha1 = 1 /\ OnlyManyRef
    /\ n_requests' = IF n_requests < MaxRefRequests THEN n_requests + 1 ELSE n_requests

Requested(op, ref, unique, s) ==
    /\ SetRefState(s)
    /\ u_pc' = [op |-> op, ref |-> ref, ret |-> unique.ref]

UpdateRefMade(ref, sha1, unique) ==
    Requested("update_ref", ref, unique, update_ref_made(RefState, unique, sha1))

UpdateRef(ref, sha1) ==
    /\ Requests(ref, sha1)
    /\ UpdateRefMade(ref, sha1, make_unique_refname(all_refs, ref))

CreateTagMade(tagname, sha1, unique) ==
    Requested("create_tag", tagname, unique, create_tag_made(RefState, unique, sha1))

CreateTag(tagname, sha1) ==
    /\ Requests(tagname, sha1)
    /\ tagname # <<>> /\ tagname[1] = <<2>>
    /\ CreateTagMade(tagname, sha1, make_unique_refname(all_refs, tagname))

\* project_branch.finalize of a branch with a tree and no commit: the name
\* is only made
ReserveRefname(refname) ==
    /\ Requests(refname, 0)
    /\ Requested("make_unique_refname", refname, make_unique_refname(all_refs, refname),
                 [RefState EXCEPT !.all_refs = make_unique_refname(all_refs, refname).all_refs])

\* the end of finalize_branches
FinalizeBranches ==
    /\ u_pc.op \notin {"init", "finalize"}
    /\ ref_updates' = append_refs_loop(ref_updates, append_to_refs, 1)
    /\ u_pc' = [op |-> "finalize", ref |-> <<>>, ret |-> <<>>]
    /\ UNCHANGED <<all_refs, append_to_refs, prune_refs, n_requests>>

\* ------------------------------------------------------------- work items
\* The dependency graph of project_tree.py.  workitems is the heap of the
\* dependency_node objects the commits are made with (a reference is an
\* index, None is 0): the project_branch_rev objects, the staging_info,
\* read-tree, write-tree and hash items of build_stagelist and the log
\* serializers.  func is the function given with set_async_func, completion
\* the one run when the node completes; pool is the futures_executor of the
\* item: "futures", "write_tree" or none.

\* dependency_node(*dep_nodes) and async_workitem(*dep_nodes, futures_executor)
dependency_node(dep_nodes, pool, b, index_seq, owner) ==
    [func |-> "", completion |-> "", pool |-> pool, deps |-> dep_nodes,
     is_ready |-> FALSE, st |-> "new",
     branch |-> b, index_seq |-> index_seq, owner |-> owner,
     staging_info |-> 0, staging_base |-> 0]

\* dependency_node.add_dependency(dep)
add_dependency(w, self, dep) == [w EXCEPT ![self].deps = @ \cup {dep}]

\* dependency_node.ready()
node_ready(w, self) == [w EXCEPT ![self].is_ready = TRUE]

\* async_workitem.set_async_func(func)
set_async_func(w, self, func) == [w EXCEPT ![self].func = func]

\* dependency_node.set_completion_func(func)
set_completion_func(w, self, func) == [w EXCEPT ![self].completion = func]

\* a node can go on once it is ready and every node it depends on is complete
can_run(w, self) ==
    /\ w[self].is_ready
    /\ w[self].st = "new"
    /\ \A dep \in w[self].deps : w[dep].st = "done"

\* ThreadPoolExecutor(max_workers=1) of write_tree_executor
WriteTreeWorkers == 1

\* the pool has a free worker
pool_free(w, pool) ==
    pool = "write_tree"
        => Cardinality({i \in 1..Len(w) : w[i].st = "run" /\ w[i].pool = pool})
               < WriteTreeWorkers

\* project_branch_rev(branch, prev_rev), the work item only: owner is prev_rev
project_branch_rev_item(b, index_seq, prev) ==
    dependency_node({}, "futures", b, index_seq, prev)

\* process_parent_revisions, the dependencies only: on the staging base when
\* it has a tree or a commit, and on the pending parents
parent_dependencies_none(w, self, HEAD, merged) ==
    [w EXCEPT ![self].deps = @ \cup merged]

parent_dependencies(w, self, HEAD, merged) ==
    IF w[HEAD].staging_info # 0
    THEN [w EXCEPT ![self].deps = @ \cup {HEAD} \cup merged]
    ELSE [w EXCEPT ![self].deps = @ \cup merged]

\* the loop of build_stagelist over the stagelist, the items of the blobs
\* that have to be hashed only: every one is made ready and staging_info
\* depends on it
RECURSIVE hash_items(_, _, _)
hash_items(w, staging_info, n) ==
    IF n = 0 THEN w
    ELSE hash_items(
             add_dependency(
                 Append(w, [dependency_node({}, "", w[staging_info].branch,
                                            w[staging_info].index_seq,
                                            w[staging_info].owner)
                                EXCEPT !.func = "hash_object", !.is_ready = TRUE]),
                 staging_info, Len(w) + 1),
             staging_info, n - 1)

\* build_stagelist from 'if HEAD is not self.prev_rev' on, without the
\* ordering of the index on the work before it
staging_order_none(w, self, staging_info, HEAD) == w

\* build_stagelist, lines 1537-1545: the index is read from a foreign staging
\* base, or the staging waits for the staging of HEAD
staging_order(w, self, staging_info, HEAD) ==
    IF HEAD # w[self].owner
    THEN add_dependency(
             Append(w, [dependency_node({w[HEAD].staging_info} \ {0}, "write_tree",
                                        w[self].branch, w[self].index_seq, self)
                            EXCEPT !.func = "read_tree", !.is_ready = TRUE]),
             staging_info, Len(w) + 1)
    ELSE IF w[HEAD].staging_info # 0
         THEN add_dependency(w, staging_info, w[HEAD].staging_info)
    ELSE w

\* build_stagelist, lines 1547-1560
staging_work(w, self, staging_info, stagelist) ==
    IF stagelist
    THEN LET w1 == node_ready(set_async_func(w, staging_info, "stage_changes"), staging_info)
             w2 == Append(w1, [dependency_node({staging_info}, "write_tree",
                                               w[self].branch, w[self].index_seq, self)
                                   EXCEPT !.func = "write_tree"])
         IN  node_ready([add_dependency(w2, self, Len(w2)) EXCEPT
                             ![self].staging_info = Len(w2)], Len(w2))
    ELSE node_ready([add_dependency(set_completion_func(w, staging_info, "no_stage_changes"),
                                    self, staging_info) EXCEPT
                         ![self].staging_info = staging_info], staging_info)

\* build_stagelist(HEAD) on the work items: HEAD is the staging base,
\* stagelist tells whether anything is staged, hashes is the number of blobs
\* to hash and merged the pending parents
build_stagelist_items(w, self, HEAD, stagelist, hashes, merged) ==
    staging_work(
        staging_order(
            hash_items(
                parent_dependencies(
                    Append([w EXCEPT ![self].staging_base = HEAD],
                           dependency_node({}, "futures", w[self].branch,
                                           w[self].index_seq, self)),
                    self, HEAD, merged),
                Len(w) + 1, hashes),
            self, Len(w) + 1, HEAD),
        self, Len(w) + 1, stagelist)

\* make_log_serializer that chains nothing
make_log_serializer_unchained(w, prev_serializer) ==
    Append(node_ready(w, prev_serializer),
           [dependency_node({}, "", 0, 0, 0) EXCEPT !.completion = "do_dump", !.is_ready = TRUE])

\* make_log_serializer(prev_serializer): the serializer before is made ready
\* and the new one depends on it
make_log_serializer(w, prev_serializer) ==
    Append(node_ready(w, prev_serializer),
           [dependency_node({prev_serializer}, "", 0, 0, 0) EXCEPT !.completion = "do_dump"])

\* ---- inputs
WorkBranches == 1..2

\* ---- actions
\* the branches are made (init_head_rev) and load() makes the first
\* serializer
WInit ==
    /\ workitems = <<project_branch_rev_item(1, 0, 0), project_branch_rev_item(1, 0, 1),
                     project_branch_rev_item(2, 0, 0), project_branch_rev_item(2, 0, 3),
                     [dependency_node({}, "", 0, 0, 0) EXCEPT !.completion = "do_dump"]>>
    /\ w_branches = [b \in WorkBranches |->
                        [HEAD |-> 2 * b - 1, stage |-> 2 * b, index_seq |-> 0]]
    /\ log_serializer = 5
    /\ log_output = <<>>
    /\ w_prepared = 0
    /\ w_commits = <<>>
    /\ w_pc = [op |-> "init", self |-> 0]

\* project_branch.prepare_commit(revision) and the next_log_serializer() that
\* follows it in load()
Prepared(b, rev_info, w) ==
    /\ workitems' = make_log_serializer(
                        node_ready(
                            Append(set_async_func(w, rev_info, "finalize_commit"),
                                   project_branch_rev_item(b, w_branches[b].index_seq, rev_info)),
                            w_branches[b].HEAD),
                        log_serializer)
    /\ w_branches' = [w_branches EXCEPT ![b].HEAD = rev_info, ![b].stage = Len(w) + 1]
    /\ log_serializer' = Len(w) + 2
    /\ w_prepared' = w_prepared + 1
    /\ w_pc' = [op |-> "prepare", self |-> rev_info]
    /\ UNCHANGED <<log_output, w_commits>>

WPrepareCommit(b, HEAD, stagelist, hashes, merged) ==
    /\ w_pc.op # "end"
    /\ w_prepared < MaxWorkRevs
    /\ Prepared(b, w_branches[b].stage,
                build_stagelist_items(add_dependency(workitems, log_serializer,
                                                     w_branches[b].stage),
                                      w_branches[b].stage, HEAD, stagelist, hashes, merged))

\* project_branch.delete(revision), the work items and the index only
WDelete(b) ==
    /\ w_pc.op # "end"
    /\ workitems[w_branches[b].HEAD].staging_info # 0
    /\ w_branches[b].index_seq < MaxIndexSeq
    /\ workitems' = node_ready(workitems, w_branches[b].HEAD)
                        \o <<project_branch_rev_item(b, w_branches[b].index_seq + 1, 0),
                             project_branch_rev_item(b, w_branches[b].index_seq + 1,
                                                     Len(workitems) + 1)>>
    /\ w_branches' = [w_branches EXCEPT ![b] = [HEAD |-> Len(workitems) + 1,
                                                stage |-> Len(workitems) + 2,
                                                index_seq |-> @.index_seq + 1]]
    /\ w_pc' = [op |-> "delete", self |-> w_branches[b].HEAD]
    /\ UNCHANGED <<log_serializer, log_output, w_prepared, w_commits>>

\* the end of load(): every branch is made ready, and so is the last
\* serializer
WEndOfHistory ==
    /\ w_pc.op # "end"
    /\ workitems' = node_ready(
                        make_log_serializer(
                            node_ready(node_ready(workitems, w_branches[1].HEAD),
                                       w_branches[2].HEAD),
                            log_serializer),
                        Len(workitems) + 1)
    /\ log_serializer' = Len(workitems) + 1
    /\ w_pc' = [op |-> "end", self |-> 0]
    /\ UNCHANGED <<w_branches, log_output, w_prepared, w_commits>>

\* the executor gives the function of a work item to its pool, or calls it
WStart(self) ==
    /\ self <= Len(workitems)
    /\ can_run(workitems, self)
    /\ workitems[self].func # ""
    /\ pool_free(workitems, workitems[self].pool)
    /\ workitems' = [workitems EXCEPT ![self].st = "run"]
    /\ UNCHANGED <<w_branches, log_serializer, log_output, w_prepared, w_commits, w_pc>>

\* the function of a work item returns and the item completes
WEnd(self) ==
    /\ self <= Len(workitems)
    /\ workitems[self].st = "run"
    /\ workitems' = [workitems EXCEPT ![self].st = "done"]
    /\ w_commits' = IF workitems[self].func = "finalize_commit"
                    THEN Append(w_commits, self) ELSE w_commits
    /\ UNCHANGED <<w_branches, log_serializer, log_output, w_prepared, w_pc>>

\* a node with no function completes; log_serializer.complete() writes its
\* buffer to the log file
WComplete(self) ==
    /\ self <= Len(workitems)
    /\ can_run(workitems, self)
    /\ workitems[self].func = ""
    /\ workitems' = [workitems EXCEPT ![self].st = "done"]
    /\ log_output' = IF workitems[self].completion = "do_dump"
                     THEN Append(log_output, self) ELSE log_output
    /\ UNCHANGED <<w_branches, log_serializer, w_prepared, w_commits, w_pc>>

XInit ==
    /\ deleted_revs = <<>>
    /\ deleted_path = <<>>

\* no object has merged revisions or cherry-picks; the branches recreate
\* merges
YIdle ==
    /\ rev_mergeinfo = [i \in 1..MaxPickBranchRevs |-> {}]
    /\ cherry_pick_revs = [i \in 1..MaxPickBranchRevs |-> <<>>]
    /\ merge_pc = [self |-> 0, merged_branch |-> 0, added |-> {}]

YInit == YIdle /\ recreate_merges = TRUE

\* no revision is read and no object has revision properties
ZInit ==
    /\ props_list = [i \in 1..MaxSkipBranchRevs |-> <<>>]
    /\ commit_props = <<>>
    /\ revision_log = [rev \in 1..MaxSkipRev |-> 0]

\* ------------------------------------------------ variables of the patterns
\* A pattern is a sequence of characters: "t" is a character of plain text,
\* "A", "B" and "C" are references $A, $B and $C of the variables, ";"
\* separates the items of a list and "*" is a character a variable may not
\* hold.
VarNames == {"A", "B", "C"}

VarChars == {"t", ";", "*"} \cup VarNames

VarTexts == UNION {[1..n -> VarChars] : n \in 0..MaxVarText}

\* str.split(';')
RECURSIVE split(_)
split(t) ==
    IF \A i \in 1..Len(t) : t[i] # ";"
    THEN <<t>>
    ELSE LET i == CHOOSE i \in 1..Len(t) :
                      t[i] = ";" /\ \A j \in 1..(i - 1) : t[j] # ";"
         IN  <<SubSeq(t, 1, i - 1)>> \o split(SubSeq(t, i + 1, Len(t)))

\* the keys of a dictionary of variables
var_keys(d) == {v \in VarNames : d[v] # <<>>}

CIdle ==
    /\ replacement_vars = [v \in VarNames |-> <<>>]
    /\ c_src = <<>>
    /\ c_stack = <<>>
    /\ c_tokens = <<>>
    /\ c_pc = "config"
    /\ c_exc = [type |-> "", msg |-> "", key |-> ""]

\* the text None
VarNone == <<"None">>

\* add_replacement_var(var, text): a text of None drops the variable
AddReplacementVar(var, text) ==
    /\ c_pc = "config"
    /\ replacement_vars' =
           IF text = VarNone
           THEN [replacement_vars EXCEPT ![var] = <<>>]
           ELSE IF \E i \in 1..Len(text) : text[i] = "*"
                THEN replacement_vars
                ELSE [replacement_vars EXCEPT ![var] = split(text)]
    /\ UNCHANGED <<c_src, c_stack, c_tokens, c_pc, c_exc>>

\* the except clause of wildcard_parser.__init__ for a KeyError of key
key_error_swapped(key, vars_dict) ==
    IF key \in var_keys(vars_dict) THEN "not defined" ELSE "recursively referred"

key_error(key, vars_dict) ==
    IF key \notin var_keys(vars_dict) THEN "not defined" ELSE "recursively referred"

\* wildcard_parser(src, vars_dict): the tokenizer of src starts
WildcardParser(src) ==
    /\ c_pc = "config"
    /\ c_src' = src
    /\ c_pc' = IF src = <<>> THEN "done" ELSE "expanding"
    /\ c_stack' = IF src = <<>>
                  THEN <<>>
                  ELSE <<[items |-> <<src>>, i |-> 1, pos |-> 1,
                          vars_dict |-> var_keys(replacement_vars)]>>
    /\ UNCHANGED <<replacement_vars, c_tokens, c_exc>>

\* One step of the innermost tokenizer: the next match of its string, the
\* next item of the list it is made for, or its end.
Tokenize ==
    /\ c_pc = "expanding"
    /\ LET n == Len(c_stack)
           top == c_stack[n]
           src == top.items[top.i]
       IN  IF top.pos > Len(src)
           THEN IF top.i < Len(top.items)
                THEN /\ c_stack' = [c_stack EXCEPT ![n].i = @ + 1, ![n].pos = 1]
                     /\ UNCHANGED <<c_tokens, c_pc, c_exc>>
                ELSE /\ c_stack' = SubSeq(c_stack, 1, n - 1)
                     /\ c_pc' = IF n = 1 THEN "done" ELSE c_pc
                     /\ UNCHANGED <<c_tokens, c_exc>>
           ELSE IF src[top.pos] \notin VarNames
                THEN /\ c_tokens' = Append(c_tokens, src[top.pos])
                     /\ c_stack' = [c_stack EXCEPT ![n].pos = @ + 1]
                     /\ UNCHANGED <<c_pc, c_exc>>
                ELSE LET var == src[top.pos]
                     IN  IF var \notin top.vars_dict
                         THEN /\ c_pc' = "raised"
                              /\ c_exc' = [type |-> "Exception_cfg_parse",
                                           msg |-> key_error(var, replacement_vars),
                                           key |-> var]
                              /\ c_stack' = <<>>
                              /\ UNCHANGED c_tokens
                         ELSE /\ c_stack' =
                                    Append([c_stack EXCEPT ![n].pos = @ + 1],
                                           [items |-> replacement_vars[var],
                                            i |-> 1, pos |-> 1,
                                            vars_dict |-> top.vars_dict \ {var}])
                              /\ UNCHANGED <<c_tokens, c_pc, c_exc>>
    /\ UNCHANGED <<replacement_vars, c_src>>

\* the configuration is read on
ParserDone ==
    /\ c_pc \in {"done", "raised"}
    /\ c_pc' = "config"
    /\ c_src' = <<>>
    /\ c_tokens' = <<>>
    /\ c_exc' = [type |-> "", msg |-> "", key |-> ""]
    /\ UNCHANGED <<replacement_vars, c_stack>>

\* ------------------------------------------- mergeinfo of the branch-revs
\* The mergeinfo and tree_mergeinfo objects are kept on a heap h = [mis, tms]:
\* a branch-rev refers to its objects, and a tree_mergeinfo to the mergeinfo
\* of each of its paths.
MdHeap == [mis |-> md_mis, tms |-> md_tms]

\* mergeinfo(): a new object of the value v
mi_new(h, v) == [h |-> [h EXCEPT !.mis = Append(@, v)], res |-> Len(h.mis) + 1]

\* mergeinfo.copy
mi_copy(h, m) == mi_new(h, h.mis[m])

\* mergeinfo.add_mergeinfo on the object m
mi_add_mergeinfo(h, m, add) ==
    LET r == add_mergeinfo_loop(h.mis[m].paths_dict, h.mis[add].paths_dict, 1, FALSE)
    IN  [h |-> [h EXCEPT !.mis[m] =
                    Mergeinfo(r.paths_dict, IF r.was_changed THEN FALSE ELSE @.normalized)],
         was_changed |-> r.was_changed]

\* tree_mergeinfo(): a new object
tm_new(h) == [h |-> [h EXCEPT !.tms = Append(@, <<>>)], res |-> Len(h.tms) + 1]

\* tree_mergeinfo.copy: a copy of the mergeinfo of each path
RECURSIVE tm_copy_loop(_, _, _, _)
tm_copy_loop(h, t, c, i) ==
    IF i > Len(h.tms[t]) THEN h
    ELSE LET m == mi_copy(h, h.tms[t][i][2])
         IN  tm_copy_loop([m.h EXCEPT !.tms[c] = Append(@, <<h.tms[t][i][1], m.res>>)],
                          t, c, i + 1)

tm_copy(h, t) ==
    LET c == tm_new(h)
    IN  [h |-> tm_copy_loop(c.h, t, c.res, 1), res |-> c.res]

\* tree_mergeinfo.set_mergeinfo on the object t
tm_set_mergeinfo(h, t, path, src_mergeinfo) ==
    IF Len(h.mis[src_mergeinfo].paths_dict) = 0
    THEN [h EXCEPT !.tms[t] = DictPop(@, path)]
    ELSE IF path = ""
    THEN [h EXCEPT !.tms[t] = DictPop(DictSet(@, path, src_mergeinfo), "..")]
    ELSE [h EXCEPT !.tms[t] = DictSet(@, path, src_mergeinfo)]

\* tree_mergeinfo.add_mergeinfo on the object t
tm_add_mergeinfo(h, t, path, src_mergeinfo) ==
    IF ~DictHas(h.tms[t], path)
    THEN LET c == mi_copy(h, src_mergeinfo)
         IN  [h |-> tm_set_mergeinfo(c.h, t, path, c.res), was_changed |-> TRUE]
    ELSE mi_add_mergeinfo(h, DictGet(h.tms[t], path), src_mergeinfo)

\* tree_mergeinfo.add_tree_mergeinfo without path prefixes: the loop over
\* the items the source had when the call began
RECURSIVE add_tree_mergeinfo_loop(_, _, _, _, _)
add_tree_mergeinfo_loop(h, t, items, i, was_changed) ==
    IF i > Len(items) THEN [h |-> h, was_changed |-> was_changed]
    ELSE LET r == tm_add_mergeinfo(h, t, items[i][1], items[i][2])
         IN  add_tree_mergeinfo_loop(r.h, t, items, i + 1, was_changed \/ r.was_changed)

add_tree_mergeinfo(h, t, src_tree_mergeinfo) ==
    add_tree_mergeinfo_loop(h, t, h.tms[src_tree_mergeinfo], 1, FALSE)

\* tree_mergeinfo.build_mergeinfo: a new mergeinfo object
RECURSIVE tm_build_loop(_, _, _, _)
tm_build_loop(h, t, new_mergeinfo, i) ==
    IF i > Len(h.tms[t]) THEN h
    ELSE tm_build_loop(mi_add_mergeinfo(h, new_mergeinfo, h.tms[t][i][2]).h,
                       t, new_mergeinfo, i + 1)

tm_build_mergeinfo(h, t) ==
    LET n == mi_new(h, NewMergeinfo)
    IN  [h |-> tm_build_loop(n.h, t, n.res, 1), res |-> n.res]

\* ---- inputs
\* the paths of svn:mergeinfo lines: of the source branches 1 and 2, and
\* path 3 that belongs to no branch
MdSources == {1, 2}

md_find_branch(path) == IF path[1] \in MdSources THEN path[1] ELSE 0

MdR1 == <<<<1, 1>>>>

MdR2 == <<<<1, 2>>>>

\* the values of svn:mergeinfo, the first is the empty one
MdValues ==
    {NewMergeinfo,
     Mergeinfo(<< <<<<1>>, MdR1>> >>, TRUE),
     Mergeinfo(<< <<<<2>>, MdR2>> >>, TRUE),
     Mergeinfo(<< <<<<3>>, MdR1>> >>, TRUE),
     Mergeinfo(<< <<<<1>>, MdR1>>, <<<<2>>, MdR1>> >>, FALSE)}

\* the tree_mergeinfo of a source: nothing, or one value for its root or
\* inherited from above it
MdTrees == {<<>>} \cup {<<<<k, v>>>> : k \in {"", ".."}, v \in MdValues \ {NewMergeinfo}}

NIdle ==
    /\ md_mis = <<>>
    /\ md_tms = <<>>
    /\ md_revs = <<>>
    /\ md_src = <<>>
    /\ md_merged = {}
    /\ md_copy_source = 0
    /\ md_tree = <<>>
    /\ md_parent = NewMergeinfo
    /\ md_prev_tm = 0
    /\ md_prev_mi = 0
    /\ md_diff = NewMergeinfo
    /\ md_pc = "new"
    /\ md_pass = [n |-> 0, changed |-> FALSE, before |-> <<>>]

\* a tree_mergeinfo object of the content tree (path -> value)
RECURSIVE tm_load(_, _, _, _)
tm_load(h, t, tree, i) ==
    IF i > Len(tree) THEN h
    ELSE LET m == mi_new(h, tree[i][2])
         IN  tm_load(tm_set_mergeinfo(m.h, t, tree[i][1], m.res), t, tree, i + 1)

\* project_branch_rev(branch) of a source branch with the tree_mergeinfo tree
SourceRev(h, rev, tree) ==
    LET t == tm_new(h)
        h1 == tm_load(t.h, t.res, tree, 1)
        m == tm_build_mergeinfo(h1, t.res)
    IN  [h |-> m.h, res |-> [rev |-> rev, tree_mergeinfo |-> t.res, mergeinfo |-> m.res]]

\* branch.init_head_rev: HEAD and the staging branch-rev made of it, which
\* has the objects of HEAD; parent_mergeinfo is what find_mergeinfo finds
\* above the branch when it inherits mergeinfo
init_head_rev_mergeinfo(h, parent_mergeinfo) ==
    LET m == mi_new(h, NewMergeinfo)
        t == tm_new(m.h)
        p == mi_new(t.h, parent_mergeinfo)
        h1 == IF Len(parent_mergeinfo.paths_dict) # 0
              THEN tm_set_mergeinfo(mi_add_mergeinfo(p.h, m.res, p.res).h, t.res, "..", m.res)
              ELSE t.h
        HEAD == [tree_mergeinfo |-> t.res, mergeinfo |-> m.res]
    IN  [h |-> h1, res |-> <<HEAD, HEAD>>]

\* The branch is created: the source branches have their branch-revs, the
\* first at revision 1 and the second at revision 2.
MdInitHeadRev(parent_mergeinfo, tree1, tree2, tree3, merged) ==
    /\ md_pc = "new"
    /\ LET s1 == SourceRev(MdHeap, 1, tree1)
           s2 == SourceRev(s1.h, 2, tree2)
           r == init_head_rev_mergeinfo(s2.h, parent_mergeinfo)
       IN  /\ md_mis' = r.h.mis
           /\ md_tms' = r.h.tms
           /\ md_src' = <<s1.res, s2.res>>
           /\ md_revs' = r.res
    /\ md_merged' = merged
    /\ md_copy_source' = 0
    /\ md_tree' = tree3
    /\ md_parent' = parent_mergeinfo
    /\ md_pc' = "changes"
    /\ UNCHANGED <<md_prev_tm, md_prev_mi, md_diff, md_pass>>

\* the staging branch-rev and the one before it
MdSelf == Len(md_revs)

MdPrev == Len(md_revs) - 1

\* process_svn_mergeinfo(path, obj1, obj2) of a changelist item whose
\* svn:mergeinfo has changed to obj2_mergeinfo
ProcessSvnMergeinfo(path, obj2_mergeinfo) ==
    /\ md_pc = "changes"
    /\ LET self == md_revs[MdSelf]
           c == IF self.tree_mergeinfo = md_revs[MdPrev].tree_mergeinfo
                THEN tm_copy(MdHeap, self.tree_mergeinfo)
                ELSE [h |-> MdHeap, res |-> self.tree_mergeinfo]
           m == mi_new(c.h, obj2_mergeinfo)
           h1 == IF Len(obj2_mergeinfo.paths_dict) = 0
                 THEN [c.h EXCEPT !.tms[c.res] = DictPop(@, path)]
                 ELSE tm_set_mergeinfo(m.h, c.res, path, m.res)
       IN  /\ md_mis' = h1.mis
           /\ md_tms' = h1.tms
           /\ md_revs' = [md_revs EXCEPT ![MdSelf].tree_mergeinfo = c.res]
    /\ md_pc' = "changed"
    /\ UNCHANGED <<md_src, md_merged, md_copy_source, md_tree, md_parent,
                   md_prev_tm, md_prev_mi, md_diff, md_pass>>

\* process_merge_delta up to its loop.  The branch inherits mergeinfo: when
\* the revision has none at the root of the branch, what find_mergeinfo finds
\* above the branch is kept under '..'.
merge_delta_inherit(h, self, prev) ==
    LET prev_parent == IF DictHas(h.tms[prev.tree_mergeinfo], "..")
                THEN h.mis[DictGet(h.tms[prev.tree_mergeinfo], "..")].paths_dict
                ELSE <<>>
    IN  IF DictHas(h.tms[self.tree_mergeinfo], "")
           \/ (prev_parent = <<>> /\ md_parent.paths_dict = <<>>)
           \/ (DictHas(h.tms[prev.tree_mergeinfo], "..")
               /\ DictEq(prev_parent, md_parent.paths_dict))
        THEN [h |-> h, res |-> self.tree_mergeinfo]
        ELSE LET c == IF self.tree_mergeinfo = prev.tree_mergeinfo
                      THEN tm_copy(h, prev.tree_mergeinfo)
                      ELSE [h |-> h, res |-> self.tree_mergeinfo]
                 m == mi_new(c.h, md_parent)
             IN  [h |-> tm_set_mergeinfo(m.h, c.res, "..", m.res), res |-> c.res]

\* the mergeinfo of the copy source, a whole source branch, is added to the
\* previous tree-mergeinfo
merge_delta_copy_source(h, prev, source) ==
    IF source = 0
    THEN [h |-> h, res |-> prev.tree_mergeinfo]
    ELSE IF Len(h.tms[md_src[source].tree_mergeinfo]) = 0
            \/ md_src[source].tree_mergeinfo = prev.tree_mergeinfo
    THEN [h |-> h, res |-> prev.tree_mergeinfo]
    ELSE LET c == tm_copy(h, prev.tree_mergeinfo)
         IN  [h |-> add_tree_mergeinfo(c.h, c.res, md_src[source].tree_mergeinfo).h,
              res |-> c.res]

ProcessMergeDelta(source) ==
    /\ md_pc \in {"changes", "changed"}
    /\ LET prev == md_revs[MdPrev]
           i == merge_delta_inherit(MdHeap, md_revs[MdSelf], prev)
           p == merge_delta_copy_source(i.h, prev, source)
       IN  IF i.res = p.res
           THEN /\ md_pc' = "delta"
                /\ UNCHANGED <<md_mis, md_tms, md_revs, md_prev_tm, md_prev_mi>>
           ELSE LET m == tm_build_mergeinfo(p.h, i.res)
                    pm == IF p.res = prev.tree_mergeinfo
                          THEN [h |-> m.h, res |-> prev.mergeinfo]
                          ELSE tm_build_mergeinfo(m.h, p.res)
                IN  /\ md_mis' = pm.h.mis
                    /\ md_tms' = pm.h.tms
                    /\ md_revs' = [md_revs EXCEPT ![MdSelf] =
                                       [tree_mergeinfo |-> i.res, mergeinfo |-> m.res]]
                    /\ md_prev_tm' = p.res
                    /\ md_prev_mi' = pm.res
                    /\ md_pc' = "loop"
    /\ md_pass' = [n |-> 0, changed |-> FALSE, before |-> <<>>]
    /\ md_copy_source' = source
    /\ UNCHANGED <<md_src, md_merged, md_tree, md_parent, md_diff>>

\* merged_branch.get_revision(rev) of a source branch
md_get_revision(source, rev) == IF rev >= md_src[source].rev THEN source ELSE 0

\* the loop over mergeinfo_diff.items() of one pass: s is
\* [h, prev_tree_mergeinfo, changed]
RECURSIVE merge_delta_pass(_, _, _, _)
merge_delta_pass(s, prev, items, i) ==
    IF i > Len(items) THEN s
    ELSE LET path == items[i][1]
             added_ranges == items[i][2]
             rev == added_ranges[Len(added_ranges)][2]
             merged_branch == md_find_branch(path)
         IN  IF merged_branch = 0
             THEN LET t == tm_new(s.h)
                      new_tree_mergeinfo == [h |-> tm_load(t.h, t.res, md_tree, 1), res |-> t.res]
                      r == add_tree_mergeinfo(new_tree_mergeinfo.h, s.prev_tree_mergeinfo,
                                              new_tree_mergeinfo.res)
                  IN  merge_delta_pass([s EXCEPT !.h = r.h,
                                                 !.changed = @ \/ r.was_changed],
                                       prev, items, i + 1)
             ELSE IF md_get_revision(merged_branch, rev) = 0 \/ merged_branch \in md_merged
             THEN merge_delta_pass(s, prev, items, i + 1)
             ELSE LET c == IF s.prev_tree_mergeinfo = prev.tree_mergeinfo
                           THEN tm_copy(s.h, s.prev_tree_mergeinfo)
                           ELSE [h |-> s.h, res |-> s.prev_tree_mergeinfo]
                      r == add_tree_mergeinfo(c.h, c.res, md_src[merged_branch].tree_mergeinfo)
                  IN  merge_delta_pass([h |-> r.h, prev_tree_mergeinfo |-> c.res,
                                        changed |-> s.changed \/ r.was_changed],
                                       prev, items, i + 1)

\* the content of a tree_mergeinfo object: path -> value
TreeContent(h, t) == {<<h.tms[t][i][1], h.mis[h.tms[t][i][2]]>> : i \in 1..Len(h.tms[t])}

\* One pass of the loop of process_merge_delta: the difference is taken, the
\* mergeinfo of what it names is added to the previous tree-mergeinfo, and
\* the previous mergeinfo is built anew for another pass if that changed it.
MergeDeltaPass ==
    /\ md_pc = "loop"
    /\ LET self == md_revs[MdSelf]
           prev == md_revs[MdPrev]
           diff == get_diff(md_mis[self.mergeinfo], md_mis[md_prev_mi])
           s == merge_delta_pass([h |-> MdHeap, prev_tree_mergeinfo |-> md_prev_tm,
                                  changed |-> FALSE],
                                 prev, diff.paths_dict, 1)
           b == IF s.changed
                THEN tm_build_mergeinfo(s.h, s.prev_tree_mergeinfo)
                ELSE [h |-> s.h, res |-> md_prev_mi]
       IN  /\ md_mis' = b.h.mis
           /\ md_tms' = b.h.tms
           /\ md_prev_tm' = s.prev_tree_mergeinfo
           /\ md_prev_mi' = b.res
           /\ md_diff' = diff
           /\ md_pc' = IF s.changed THEN "loop" ELSE "delta"
           /\ md_pass' = [n |-> md_pass.n + 1, changed |-> s.changed,
                          before |-> TreeContent(MdHeap, md_prev_tm)]
    /\ UNCHANGED <<md_revs, md_src, md_merged, md_copy_source, md_tree, md_parent>>

\* get_staging_base(HEAD): new_prev_rev is the branch-rev of the copy
\* source, which is among revisions_to_merge, when it is found fit to be the
\* staging base, 0 if there is none or HEAD has a staged tree
GetStagingBase(new_prev_rev) ==
    /\ md_pc = "delta"
    /\ new_prev_rev \in {0, md_copy_source}
    /\ LET self == md_revs[MdSelf]
           m == mi_add_mergeinfo(MdHeap, self.mergeinfo, md_src[new_prev_rev].mergeinfo)
           t == add_tree_mergeinfo(m.h, self.tree_mergeinfo, md_src[new_prev_rev].tree_mergeinfo)
       IN  IF new_prev_rev = 0
           THEN UNCHANGED <<md_mis, md_tms>>
           ELSE /\ md_mis' = t.h.mis
                /\ md_tms' = t.h.tms
    /\ md_pc' = "staged"
    /\ UNCHANGED <<md_revs, md_src, md_merged, md_copy_source, md_tree, md_parent,
                   md_prev_tm, md_prev_mi, md_diff, md_pass>>

\* the revision is committed: the staging branch-rev becomes HEAD, and
\* project_branch_rev(branch, HEAD) is the new staging one
MdNextRevision ==
    /\ md_pc = "staged"
    /\ Len(md_revs) < MaxMergeDeltaRevs
    /\ md_revs' = Append(md_revs, md_revs[MdSelf])
    /\ md_pc' = "changes"
    /\ UNCHANGED <<md_mis, md_tms, md_src, md_merged, md_copy_source, md_tree, md_parent,
                   md_prev_tm, md_prev_mi, md_diff, md_pass>>

\* ------------------------------------------- the order of prepare_commit
\* The end of apply_revision of project_tree.py for a branch map with merge
\* children nested in merge children: branch 2 is merged to its parent
\* branch 1, branch 3 to its parent branch 2 and branch 4 to its parent
\* branch 1; branch 5 is merged to none.  Every branch directory is in the
\* tree of every revision.
OrderBranches == 1..5

\* project_branch.merge_parent (project_tree.py 1605-1612), None is 0
nested_merge_parent(b) ==
    IF b = 2 THEN 1 ELSE IF b = 3 THEN 2 ELSE IF b = 4 THEN 1 ELSE 0

\* list.remove(x): the first item equal to x is removed
list_remove(l, x) ==
    LET first == CHOOSE i \in 1..Len(l) : l[i] = x /\ \A j \in 1..(i - 1) : l[j] # x
    IN  SubSeq(l, 1, first - 1) \o SubSeq(l, first + 1, Len(l))

\* the loop over self.branches_changed that orders the merged branches;
\* acc is the local list branches_changed
RECURSIVE order_branches(_, _, _)
order_branches(changed, i, acc) ==
    IF i > Len(changed) THEN acc
    ELSE LET branch == changed[i]
             added == IF \E k \in 1..Len(acc) : acc[k] = branch THEN acc
                      ELSE Append(acc, branch)
             parent == nested_merge_parent(branch)
         IN  IF parent = 0 THEN order_branches(changed, i + 1, added)
             ELSE IF /\ \E k \in 1..Len(added) : added[k] = parent
                     /\ added[Len(added)] # parent
                  THEN order_branches(changed, i + 1,
                           Append(list_remove(added, parent), parent))
             ELSE order_branches(changed, i + 1, Append(added, parent))

\* the loop of prepare_commit calls: stage.set_revision gives the staging
\* branch-rev the revision, the branch-rev becomes HEAD and a new staging
\* one is made after it (what else prepare_commit does, and the merge of the
\* new HEAD into the stage of the merge parent, is in PrepareCommitRev)
RECURSIVE prepare_commits(_, _, _, _)
prepare_commits(revs, ordered, i, rev) ==
    IF i > Len(ordered) THEN revs
    ELSE prepare_commits([revs EXCEPT ![ordered[i]] = Append(@, rev)],
                         ordered, i + 1, rev)

AIdle ==
    /\ branches_changed = <<>>
    /\ a_rev = 0
    /\ a_revs = [b \in OrderBranches |-> <<>>]
    /\ a_changed = <<>>
    /\ a_prepared = <<>>
    /\ a_pc = "applied"

\* load() reads the next revision
OrderNextRevision ==
    /\ a_pc = "applied"
    /\ a_rev < MaxOrderRev
    /\ a_rev' = a_rev + 1
    /\ a_pc' = "nodes"
    /\ UNCHANGED <<branches_changed, a_revs, a_changed, a_prepared>>

\* set_branch_changed(branch), called for the branch of a node
SetBranchChanged(branch) ==
    /\ a_pc = "nodes"
    /\ IF \E k \in 1..Len(branches_changed) : branches_changed[k] = branch
       THEN UNCHANGED branches_changed
       ELSE branches_changed' = Append(branches_changed, branch)
    /\ UNCHANGED <<a_rev, a_revs, a_changed, a_prepared, a_pc>>

\* apply_revision from the ordering of the merged branches on
PrepareCommits ==
    /\ a_pc = "nodes"
    /\ a_prepared' = order_branches(branches_changed, 1, <<>>)
    /\ a_revs' = prepare_commits(a_revs, order_branches(branches_changed, 1, <<>>),
                                1, a_rev)
    /\ a_changed' = branches_changed
    /\ branches_changed' = <<>>
    /\ a_pc' = "applied"
    /\ UNCHANGED a_rev

\* ------------------------------------------------- the flags of a node
\* the tags of the flags, and the values of their header lines
DeltaTags == {"Text-delta", "Prop-delta"}
HeaderValues == {"true", "false", "True", "no"}

\* bool(value) of a bytes value: a bytes object is false only when empty
bytes_bool(value) == value # ""

\* decode_bool_value(tag, value)
decode_bool_value(value) ==
    IF value # "true" /\ value # "false"
    THEN [err |-> "Exception_svn_parse", res |-> FALSE]
    ELSE [err |-> "", res |-> bytes_bool(value)]

\* node_record.__init__: the flags of a new node
FIdle ==
    /\ header_lines = <<>>
    /\ text_is_delta = FALSE
    /\ props_is_delta = FALSE
    /\ n_pc = "headers"
    /\ n_exc = ""

\* node_record.read: one turn of the loop over the header lines, for a
\* Text-delta or Prop-delta line; the exception ends load()
ReadHeaderLine(tag, value) ==
    /\ pc = "apply"
    /\ n_pc = "headers"
    /\ Len(header_lines) < MaxHeaderLines
    /\ header_lines' = Append(header_lines, <<tag, value>>)
    /\ LET d == decode_bool_value(value)
       IN  IF d.err # ""
           THEN /\ n_pc' = "raised"
                /\ n_exc' = d.err
                /\ pc' = "failed"
                /\ exc' = d.err
                /\ UNCHANGED <<text_is_delta, props_is_delta>>
           ELSE /\ text_is_delta' = IF tag = "Text-delta" THEN d.res ELSE text_is_delta
                /\ props_is_delta' = IF tag = "Prop-delta" THEN d.res ELSE props_is_delta
                /\ UNCHANGED <<n_pc, n_exc, pc, exc>>
    /\ UNCHANGED <<objs, its, obj_dictionary, revisions, prev_rev, warnings, node_i>>

\* node_record.read: the header lines are through, the content is read
ReadContent ==
    /\ pc = "apply"
    /\ n_pc = "headers"
    /\ n_pc' = "node"
    /\ UNCHANGED <<header_lines, text_is_delta, props_is_delta, n_exc>>

\* the node read: its kind, action, path and content with the flags of the
\* header lines
read_node(node, text_delta, props_delta) ==
    [node EXCEPT !.text_is_delta = text_delta, !.props_is_delta = props_delta]

\* the node read is applied, and the next node record is begun
ApplyReadNode(node) ==
    /\ n_pc = "node"
    /\ ApplyNode(read_node(node, text_is_delta, props_is_delta))
    /\ header_lines' = <<>>
    /\ text_is_delta' = FALSE
    /\ props_is_delta' = FALSE
    /\ n_pc' = "headers"
    /\ UNCHANGED n_exc

KInit == AIdle /\ FIdle

OInit == CIdle /\ NIdle /\ KInit

QInit == GInit /\ LIdle /\ EIdle /\ OInit

TInit == UInit /\ WInit /\ XInit /\ YInit /\ ZInit /\ QInit

vars == <<hvars, rvars, dvars, mvars, pvars, tvars>>

Init == HInit /\ RInit /\ DIdle /\ MInit /\ PInit /\ TInit

\* a dump with consecutive revisions from 0, nodes without properties
Next ==
    /\ \/ \E rev \in 0..MaxRevNum : rev = Len(revisions) /\ LoadRevision(rev)
       \/ \E node \in TreeNodes : ApplyNode(node)
       \/ FinalizeRevision
       \/ EndOfDump
    /\ UNCHANGED <<rvars, dvars, mvars, pvars, tvars>>

Spec == Init /\ [][Next]_vars

\* a dump with consecutive revisions from 0, nodes with property blocks on
\* top-level entries
NextProps ==
    /\ \/ \E rev \in 0..MaxPropRev : rev = Len(revisions) /\ LoadRevision(rev)
       \/ \E node \in PropDumpNodes : ApplyNode(node)
       \/ FinalizeRevision
       \/ EndOfDump
    /\ UNCHANGED <<rvars, dvars, mvars, pvars, tvars>>

SpecProps == Init /\ [][NextProps]_vars

\* a dump with arbitrary revision numbers, top-level directory adds and deletes
NextLoad ==
    /\ \/ \E rev \in 0..MaxGapRev : LoadRevision(rev)
       \/ \E node \in {n \in DirAddNodes \cup DeleteNodes : n.path \in TopPaths} : ApplyNode(node)
       \/ FinalizeRevision
       \/ EndOfDump
    /\ UNCHANGED <<rvars, dvars, mvars, pvars, tvars>>

SpecLoad == Init /\ [][NextLoad]_vars

\* the copies of a dump with arbitrary revision numbers: a top-level
\* directory or file is added as a copy of a top-level entry, or of the
\* root, of any revision number
GapCopyNodes ==
    {WithCopy(Node(k, "add", p), cp, r) :
        k \in {"dir", "file"}, p \in TopPaths, cp \in CopyPaths, r \in 0..MaxGapRev}

\* a dump with arbitrary revision numbers, top-level adds and copies
NextCopy ==
    /\ \/ \E rev \in 0..MaxGapRev : LoadRevision(rev)
       \/ \E node \in {n \in DirAddNodes \cup FileAddNodes : n.path \in TopPaths}
                          \cup GapCopyNodes :
              ApplyNode(node)
       \/ FinalizeRevision
       \/ EndOfDump
    /\ UNCHANGED <<rvars, dvars, mvars, pvars, tvars>>

SpecCopy == Init /\ [][NextCopy]_vars

\* a dump of two revisions with replace nodes
NextReplace ==
    /\ \/ \E rev \in 0..MaxPropRev : rev = Len(revisions) /\ LoadRevision(rev)
       \/ \E node \in TreeNodes \cup ReplaceNodes : ApplyNode(node)
       \/ FinalizeRevision
       \/ EndOfDump
    /\ UNCHANGED <<rvars, dvars, mvars, pvars, tvars>>

SpecReplace == Init /\ [][NextReplace]_vars

\* read_revisions() on a dump file of any records
NextDump ==
    /\ \/ \E next \in NextRecords : ReadVersion(next)
       \/ \E next \in NextRecords : ReadUUID(next)
       \/ \E next \in NextRecords : ReadAfterUUID(next)
       \/ \E next \in NextRecords : StartRevision(next)
       \/ \E next \in NextRecords : ReadNode(next)
       \/ YieldRevision
       \/ EndOfRecords
    /\ UNCHANGED <<hvars, dvars, mvars, pvars, tvars>>

SpecDump == Init /\ [][NextDump]_vars

\* apply_delta() on an svndiff document
InitDelta == HInit /\ RInit /\ DInit /\ MInit /\ PInit /\ TInit

NextDelta ==
    /\ \/ DeltaHeader
       \/ DeltaWindow
    /\ UNCHANGED <<hvars, rvars, mvars, pvars, tvars>>

SpecDelta == InitDelta /\ [][NextDelta]_vars

\* file change nodes: top-level files are added with text, with or without
\* properties, and changed with no, a replacing or a delta property block and
\* with no, a literal or a delta text; a directory stands where a file is
\* expected
ChangeDeltas ==
    LET OneWindow(v, svl, tvl, instrs, data) ==
            Doc(SVN(v), <<Window(0, svl, tvl, instrs, data, FALSE)>>, FALSE, 0)
    IN  {Doc(SVN(0), <<>>, FALSE, 0),
         OneWindow(0, 1, 2, <<Instr(0, 1, 0), Instr(2, 1, 0)>>, <<120>>),
         OneWindow(0, 2, 3, <<Instr(2, 1, 0), Instr(0, 2, 0)>>, <<120>>),
         OneWindow(0, 0, 2, <<Instr(2, 2, 0)>>, <<120, 121>>),
         OneWindow(0, 1, 2, <<Instr(0, 1, 0)>>, <<>>),
         OneWindow(1, 1, 1, <<Instr(0, 1, 0)>>, <<>>),
         OneWindow(3, 1, 1, <<Instr(0, 1, 0)>>, <<>>)}

ChangeAddNodes ==
    LET ChangeTexts == {<<97>>, <<97, 98>>}
    IN  {WithText(Node("file", "add", <<1>>), d) : d \in ChangeTexts}
        \cup {WithProps(WithText(Node("file", "add", <<1>>), d), <<<<1, 1>>>>, FALSE) :
                  d \in ChangeTexts}
        \cup {Node("dir", "add", <<2>>)}

FileChangeNodes ==
    LET \* the property blocks of the change nodes: [props, is_delta]
        ChangeBlocks == {<<<<>>, FALSE>>, <<<<<<2, 1>>>>, FALSE>>,
                         <<<<<<2, 1>>>>, TRUE>>, <<<<<<1, 0>>>>, TRUE>>}
        WithBlock(nodes) ==
            nodes \cup {WithProps(n, pa[1], pa[2]) : n \in nodes, pa \in ChangeBlocks}
    IN  WithBlock({Node("file", "change", p) : p \in TopPaths}
                  \cup {WithText(Node("file", "change", p), <<98>>) : p \in TopPaths}
                  \cup {WithDelta(Node("file", "change", p), Encode(doc)) :
                            p \in TopPaths, doc \in ChangeDeltas})

NextChange ==
    /\ \/ \E rev \in 0..MaxPropRev : rev = Len(revisions) /\ LoadRevision(rev)
       \/ \E node \in ChangeAddNodes \cup FileChangeNodes : ApplyNode(node)
       \/ FinalizeRevision
       \/ EndOfDump
    /\ UNCHANGED <<rvars, dvars, mvars, pvars, tvars>>

SpecChange == Init /\ [][NextChange]_vars

\* the mergeinfo of two revisions of a branch
NextMergeinfo ==
    /\ \/ \E path \in {"", ".."}, src_mergeinfo \in ParsedMergeinfos :
              SetMergeinfo(path, src_mergeinfo)
       \/ \E norm \in BOOLEAN : BuildMergeinfo(norm)
       \/ GetDiff
       \/ Normalize
    /\ UNCHANGED <<hvars, rvars, dvars, pvars, tvars>>

SpecMergeinfo == Init /\ [][NextMergeinfo]_vars

\* the commit graph of three branches
NextCommit ==
    /\ \/ NextRevision
       \/ \E b \in Branches, source_branch \in Branches, rev_to_merge \in 1..MaxCommitRev :
              rev_to_merge <= p_rev /\ AddBranchToMerge(b, source_branch, rev_to_merge)
       \/ \E b \in Branches, tree \in 1..MaxTree, own \in BOOLEAN :
              (own \/ b = 1) /\ PrepareCommit(b, tree, own)
       \/ EndOfHistory
       \/ \E rev_info \in 1..MaxBranchRevs : FinalizeCommit(rev_info)
    /\ UNCHANGED <<hvars, rvars, dvars, mvars, tvars>>

SpecCommit == Init /\ [][NextCommit]_vars

\* the ref writes of a run
NextRefs ==
    /\ \/ \E prev \in PrevRefs, prune \in BOOLEAN : LoadPrevRefs(prev, prune)
       \/ \E ref \in RefNames, sha1 \in 0..MaxSha1 : UpdateRef(ref, sha1)
       \/ \E tagname \in RefNames, sha1 \in 0..MaxSha1 : CreateTag(tagname, sha1)
       \/ \E refname \in RefNames : ReserveRefname(refname)
       \/ FinalizeBranches
    /\ UNCHANGED <<hvars, rvars, dvars, mvars, pvars, wvars, xvars, yvars, zvars, qvars>>

SpecRefs == Init /\ [][NextRefs]_vars

\* the work items of two branches
NextWork ==
    /\ \/ \E b \in WorkBranches, foreign \in BOOLEAN, stagelist \in BOOLEAN,
             hashes \in 0..MaxHashItems, merge \in BOOLEAN :
              LET other == w_branches[3 - b].HEAD
                  HEAD == IF foreign THEN other ELSE w_branches[b].HEAD
              IN  /\ foreign => /\ workitems[w_branches[b].HEAD].staging_info = 0
                                /\ workitems[other].staging_info # 0
                                /\ merge
                  /\ merge => workitems[other].staging_info # 0
                  /\ hashes > 0 => stagelist
                  /\ WPrepareCommit(b, HEAD, stagelist, hashes,
                                    IF merge THEN {other} ELSE {})
       \/ \E b \in WorkBranches : WDelete(b)
       \/ WEndOfHistory
       \/ \E self \in 1..MaxWorkItems : WStart(self)
       \/ \E self \in 1..MaxWorkItems : WEnd(self)
       \/ \E self \in 1..MaxWorkItems : WComplete(self)
    /\ UNCHANGED <<hvars, rvars, dvars, mvars, pvars, uvars, xvars, yvars, zvars, qvars>>

SpecWork == Init /\ [][NextWork]_vars

\* the paths of the delete, hide and replace nodes: the root, the directories
\* of the branches
DeletePaths == {<<>>, <<1>>, <<2>>, <<1, 1>>}

\* the commit graph of three branches that are deleted and added again, each
\* at most MaxIndexSeq times; a parent is requested at a revision in which the
\* source branch is present, and when it is not merged yet
NextDeleted ==
    /\ \/ p_rev < MaxDeletedRev /\ NextRevision /\ UNCHANGED xvars
       \/ \E b \in Branches, source_branch \in Branches, rev_to_merge \in 1..MaxDeletedRev :
              /\ rev_to_merge <= p_rev
              /\ \A k \in 1..Len(deleted_revs) :
                     deleted_revs[k] # branch_get_revision(branches[source_branch],
                                                           rev_to_merge)
              /\ AddBranchToMerge(b, source_branch, rev_to_merge)
              /\ brevs' # brevs
              /\ UNCHANGED xvars
       \/ \E b \in Branches :
              /\ Len(brevs) < MaxDeletedBranchRevs
              /\ PrepareCommitRev(b, 2, TRUE)
              /\ UNCHANGED xvars
       \/ \E path \in DeletePaths :
              /\ \A b \in Branches :
                     IsPrefix(path, branch_path(b)) /\ brevs[branches[b].HEAD].tree # 0
                         => branches[b].index_seq < MaxIndexSeq
              /\ DeleteNode(path)
       \/ \E rev_info \in 1..MaxDeletedBranchRevs :
              FinalizeCommit(rev_info) /\ UNCHANGED xvars
    /\ UNCHANGED <<hvars, rvars, dvars, mvars, uvars, wvars, yvars, zvars, qvars>>

SpecDeleted == Init /\ [][NextDeleted]_vars

\* the branches of the history whose revisions are looked up
LookupBranches == {1, 2}

\* the history of two branches over MaxLookupRev revisions: in a revision a
\* branch is changed, deleted, deleted and added again, or left alone
NextLookup ==
    /\ \/ p_rev < MaxLookupRev /\ GetNextRevision /\ UNCHANGED xvars
       \/ \E b \in LookupBranches :
              /\ Len(brevs) < MaxDeletedBranchRevs
              /\ PrepareCommitRev(b, 2, TRUE)
              /\ UNCHANGED xvars
       \/ \E b \in LookupBranches : DeleteNode(branch_path(b))
       \/ \E rev_info \in 1..MaxDeletedBranchRevs :
              FinalizeCommit(rev_info) /\ UNCHANGED xvars
    /\ UNCHANGED <<hvars, rvars, dvars, mvars, uvars, wvars, yvars, zvars, qvars>>

SpecLookup == Init /\ [][NextLookup]_vars

\* A history of branches 1 and 2 in which svn:mergeinfo of branch 1 names
\* revisions of the directory of branch 2.  Branch 2 changes in the revisions
\* before the last one and can have revision 1 of branch 1 as a copy or
\* merge source; branch 1 changes in revision 1 and, with added merged
\* revisions, from revision 2 on, where it can also have the revision before
\* of branch 2 as a copy source.  branch.recreate_merges.branch_merge is given by the
\* configuration.  The executor runs the work items in the order of their
\* construction.
PickTrees == 2..4

InitPick ==
    /\ HInit /\ RInit /\ DIdle /\ MInit /\ PInit /\ UInit /\ WInit /\ XInit /\ ZInit
    /\ QInit
    /\ YIdle
    /\ recreate_merges \in BOOLEAN

NextPick ==
    /\ \/ p_rev < MaxPickRev /\ GetNextRevision /\ UNCHANGED yvars
       \/ \E b \in 1..2 :
              /\ IF b = 2 THEN p_rev = 2 ELSE p_rev >= 2
              /\ AddBranchToMerge(b, 3 - b, p_rev - 1)
              /\ brevs' # brevs
              /\ UNCHANGED yvars
       \/ \E tree \in PickTrees :
              /\ Len(brevs) < MaxPickBranchRevs
              /\ p_rev < MaxPickRev
              /\ PrepareCommitMerge(2, tree, TRUE, 1, {})
       \/ \E added \in SUBSET (1..MaxPickRev) :
              /\ Len(brevs) < MaxPickBranchRevs
              /\ IF added = {} THEN p_rev = 1 ELSE p_rev >= 2
              /\ added \subseteq 1..(p_rev - 1)
              /\ added \cap rev_mergeinfo[branches[1].HEAD] = {}
              /\ PrepareCommitMerge(1, 4, TRUE, 2, added)
       \/ \E rev_info \in 1..MaxPickBranchRevs :
              /\ rev_info <= Len(brevs)
              /\ \A i \in 1..(rev_info - 1) : ~runnable(brevs, i)
              /\ FinalizeCommit(rev_info)
              /\ UNCHANGED yvars
    /\ UNCHANGED <<hvars, rvars, dvars, mvars, uvars, wvars, xvars, zvars, qvars>>

SpecPick == InitPick /\ [][NextPick]_vars

\* A history of branches 1 and 2 with the SkipCommit specification of
\* skip_commit: revision 2 of branch 2.  Revision 2 has a log message or
\* none, the other ones have one.  The branches have directories with
\* files, branch 1 with the same files in every revision.  A copy or merge
\* source is the revision before the current one of the other branch.  The
\* history ends after the last revision, and the executor runs the work
\* items in the order of their construction.
SkipTrees == 2..MaxTree

NextSkip ==
    /\ \/ \E log \in 0..1 :
              /\ p_rev < MaxSkipRev
              /\ log = 0 => p_rev + 1 = 2
              /\ GetNextRevisionLog(log)
       \/ \E b \in 1..2 :
              /\ p_rev > 1
              /\ AddBranchToMerge(b, 3 - b, p_rev - 1)
              /\ brevs' # brevs
              /\ UNCHANGED zvars
       \/ \E b \in 1..2, tree \in SkipTrees :
              /\ Len(brevs) < MaxSkipBranchRevs
              /\ b = 1 => tree = 2
              /\ PrepareCommitProps(b, tree, TRUE)
       \/ p_rev = MaxSkipRev /\ EndOfHistory /\ UNCHANGED zvars
       \/ \E rev_info \in 1..MaxSkipBranchRevs :
              /\ rev_info <= Len(brevs)
              /\ \A i \in 1..(rev_info - 1) : ~runnable(brevs, i)
              /\ FinalizeCommitProps(rev_info)
    /\ UNCHANGED <<hvars, rvars, dvars, mvars, uvars, wvars, xvars, yvars, qvars>>

SpecSkip == Init /\ [][NextSkip]_vars

\* The blobs of MaxStagelists stagelists are hashed and staged: the
\* stagelists are built in the order of the revisions, the executor runs a
\* hash_object that can run at any time.  The fingerprint of the
\* .gitattributes files of a branch changes when a revision changes one of
\* them.  The first stagelist is one of the branch 1 with the fingerprint 1,
\* and the stagelists are staged in the order they were built in.
InitHash ==
    /\ HInit /\ RInit /\ DIdle /\ MInit /\ PInit
    /\ UInit /\ WInit /\ XInit /\ YInit /\ ZInit
    /\ GIdle /\ LIdle /\ EIdle /\ OInit
    /\ prev_sha1_map \in PrevSha1Maps

NextHash ==
    /\ \/ \E b \in HashBranches, stagelist \in HashStagelists, attrs \in 1..MaxHashAttrs :
              /\ stagelists = <<>> => b = 1 /\ attrs = 1
              /\ BuildStagelistHash(b, stagelist, attrs)
       \/ \E n \in 1..(MaxStagelists * MaxHashPaths) : HashObject(n)
       \/ \E k \in 1..MaxStagelists :
              /\ k <= Len(stagelists)
              /\ \A j \in 1..(k - 1) : stagelists[j].staged
              /\ StageChanges(k)
    /\ UNCHANGED <<hvars, rvars, dvars, mvars, pvars, uvars, wvars, xvars, yvars, zvars, lvars, evars,
                 ovars>>

SpecHash == InitHash /\ [][NextHash]_vars

\* load() of project_history_tree with or without a Git repository: up to
\* MaxLoadRev revisions, MaxPending futures pending in a pool and
\* MaxRefQueue ref updates queued; any exception at any position.
NextShutdown ==
    /\ \/ \E repo \in BOOLEAN : LoadBegin(repo)
       \/ l_rev < MaxLoadRev /\ LoadNextRevision
       \/ \E p \in {"futures_executor", "write_tree_executor"} :
              executors[p].pending < MaxPending /\ LoadSubmit(p)
       \/ \E p \in {"futures_executor", "write_tree_executor"} : LoadFutureDone(p)
       \/ \E ref \in 1..2 : Len(git_repo.queue) < MaxRefQueue /\ LoadQueueUpdateRef(ref)
       \/ LoadStep
       \/ LoadReturn
       \/ \E e \in LoadExceptions, written \in 0..MaxRefQueue : LoadRaise(e, written)
    /\ UNCHANGED <<hvars, rvars, dvars, mvars, pvars, uvars, wvars, xvars, yvars, zvars, gvars, evars,
                 ovars>>

SpecShutdown == Init /\ [][NextShutdown]_vars

\* A run of one of the scripts on a dump file of any records: the
\* configuration is right or wrong, the dump file is there or not, and the
\* user may interrupt at any time.
NextExit ==
    /\ \/ \E script \in Scripts : Main(script) /\ UNCHANGED rvars
       \/ \E cfg_error \in BOOLEAN : MainConfig(cfg_error) /\ UNCHANGED rvars
       \/ \E exists \in BOOLEAN : OpenDump(exists) /\ UNCHANGED rvars
       \/ \E next \in NextRecords : e_pc = "load" /\ ReadVersion(next) /\ UNCHANGED evars
       \/ \E next \in NextRecords : e_pc = "load" /\ ReadUUID(next) /\ UNCHANGED evars
       \/ \E next \in NextRecords : e_pc = "load" /\ ReadAfterUUID(next) /\ UNCHANGED evars
       \/ \E next \in NextRecords : e_pc = "load" /\ StartRevision(next) /\ UNCHANGED evars
       \/ \E next \in NextRecords : e_pc = "load" /\ ReadNode(next) /\ UNCHANGED evars
       \/ e_pc = "load" /\ YieldRevision /\ UNCHANGED evars
       \/ e_pc = "load" /\ EndOfRecords /\ UNCHANGED evars
       \/ HistoryParseError /\ UNCHANGED rvars
       \/ Interrupt /\ UNCHANGED rvars
       \/ MainEnd /\ UNCHANGED rvars
    /\ UNCHANGED <<hvars, dvars, mvars, pvars, uvars, wvars, xvars, yvars, zvars, gvars, lvars,
                 ovars>>

SpecExit == Init /\ [][NextExit]_vars

\* Variables A and B are set, set again or dropped, C never is; they hold
\* any text of up to MaxVarText characters.  One of the patterns is parsed
\* at a time, and a tokenizer that has started runs on.
Patterns == {<<"A">>, <<"B">>, <<"C">>, <<"t", "A">>, <<"A", "A">>, <<"A", "B">>}

NextExpand ==
    /\ \/ \E var \in {"A", "B"}, text \in VarTexts \cup {VarNone} :
              AddReplacementVar(var, text)
       \/ \E src \in Patterns : WildcardParser(src)
       \/ Tokenize
       \/ ParserDone
    /\ UNCHANGED <<hvars, rvars, dvars, mvars, pvars, uvars, wvars, xvars, yvars, zvars, gvars,
                   lvars, evars, nvars, kvars>>

SpecExpand == Init /\ [][NextExpand]_vars /\ WF_cvars(Tokenize)

\* A branch is created as a copy of a source branch or anew, and gets up
\* to MaxMergeDeltaRevs - 1 revisions, each with at most one change of the
\* svn:mergeinfo of its root: to any value in the first revision, and to
\* none or to the second value after it.  The copy source and the staging
\* base taken from a source branch are those of the first revision; a loop
\* of process_merge_delta that has started makes its passes one by one.
MdSourceTrees == {<<>>} \cup {<<<<"", v>>>> : v \in MdValues \ {NewMergeinfo}}

NextMergeDelta ==
    /\ \/ \E parent_mergeinfo \in {NewMergeinfo, Mergeinfo(<< <<<<3>>, MdR1>> >>, TRUE)},
             tree1 \in MdSourceTrees,
             tree2 \in {<<>>, <<<<"", Mergeinfo(<< <<<<1>>, MdR1>> >>, TRUE)>>>>,
                        <<<<"", Mergeinfo(<< <<<<3>>, MdR1>> >>, TRUE)>>>>},
             tree3 \in {<<>>, <<<<"", Mergeinfo(<< <<<<2>>, MdR2>> >>, TRUE)>>>>,
                        <<<<"..", Mergeinfo(<< <<<<1>>, MdR1>> >>, TRUE)>>>>},
             merged \in {{}, {1}} :
              MdInitHeadRev(parent_mergeinfo, tree1, tree2, tree3, merged)
       \/ \E obj2_mergeinfo \in MdValues :
              /\ Len(md_revs) > 2 =>
                     obj2_mergeinfo \in {NewMergeinfo, Mergeinfo(<< <<<<2>>, MdR2>> >>, TRUE)}
              /\ ProcessSvnMergeinfo("", obj2_mergeinfo)
       \/ \E source \in {0} \cup MdSources :
              /\ source # 0 => Len(md_revs) = 2
              /\ ProcessMergeDelta(source)
       \/ MergeDeltaPass
       \/ \E new_prev_rev \in {0} \cup MdSources :
              /\ new_prev_rev # 0 => Len(md_revs) = 2
              /\ GetStagingBase(new_prev_rev)
       \/ MdNextRevision
    /\ UNCHANGED <<hvars, rvars, dvars, mvars, pvars, uvars, wvars, xvars, yvars, zvars, gvars,
                   lvars, evars, cvars, kvars>>

SpecMergeDelta == Init /\ [][NextMergeDelta]_vars

\* The nodes of a revision change the files of any of the branches, in any
\* order, and the revision is applied.
NextOrder ==
    /\ \/ OrderNextRevision
       \/ \E branch \in OrderBranches : SetBranchChanged(branch)
       \/ PrepareCommits
    /\ UNCHANGED <<hvars, rvars, dvars, mvars, pvars, uvars, wvars, xvars, yvars, zvars, gvars,
                   lvars, evars, cvars, nvars, fvars>>

SpecOrder == Init /\ [][NextOrder]_vars

\* the contents of the node records: a file is added with a text and a
\* property block, or changed with a text, or with a delta, and a property
\* block
FlagNodes ==
    {WithProps(WithText(Node("file", "add", <<1>>), <<97>>), <<<<1, 1>>>>, FALSE)}
    \cup {WithProps(WithText(Node("file", "change", <<1>>), d), <<<<2, 1>>>>, FALSE) :
              d \in {<<98>>} \cup {Encode(doc) : doc \in ChangeDeltas}}

\* a dump whose node records carry Text-delta and Prop-delta lines
NextFlags ==
    /\ \/ /\ \E rev \in 0..MaxPropRev : rev = Len(revisions) /\ LoadRevision(rev)
          /\ UNCHANGED fvars
       \/ \E tag \in DeltaTags, value \in HeaderValues : ReadHeaderLine(tag, value)
       \/ ReadContent /\ UNCHANGED hvars
       \/ \E node \in FlagNodes : ApplyReadNode(node)
       \/ n_pc = "headers" /\ header_lines = <<>> /\ FinalizeRevision /\ UNCHANGED fvars
       \/ EndOfDump /\ UNCHANGED fvars
    /\ UNCHANGED <<rvars, dvars, mvars, pvars, uvars, wvars, xvars, yvars, zvars, gvars,
                   lvars, evars, cvars, nvars, avars>>

SpecFlags == Init /\ [][NextFlags]_vars

\* ================================================================== claims
\* ----------------------------------------------------------------------- C1
\* C1: for every object the dictionary holds, finalize of a fresh copy of it
\* (svn_sha1 None, same kind, hidden flag, properties, data and items) returns
\* the dictionary's own instance and leaves the dictionary as it was.
C1_FinalizeCopyReturnsInterned ==
    \A k \in DOMAIN obj_dictionary :
        LET o == obj_dictionary[k]
            c == copy(St, o)
            r == finalize(c.st, c.res)
        IN  /\ r.st.err = ""
            /\ r.res = o
            /\ r.st.dict = obj_dictionary

\* ----------------------------------------------------------------------- C3
Range(seq) == {seq[i] : i \in 1..Len(seq)}

\* the finalized trees met when path is followed from tree t, t included
RECURSIVE AlongPath(_, _, _)
AlongPath(st, t, path) ==
    IF t = 0 \/ ~is_dir(st, t) THEN {}
    ELSE (IF is_finalized(st, t) THEN {t} ELSE {})
         \cup (IF path = <<>> THEN {}
               ELSE LET item == dict_get(st, t, Head(path))
                    IN  IF item = 0 THEN {}
                        ELSE AlongPath(st, st.its[item].object, Tail(path)))

\* from s0 to s1 no tree of the set has changed: fingerprint, hidden flag,
\* properties and entry list are the same, each entry refers to the same child
Untouched(s0, s1, trees) ==
    \A x \in trees :
        /\ s1.objs[x] = s0.objs[x]
        /\ \A i \in Range(s0.objs[x].items) : s1.its[i] = s0.its[i]

\* the tree of the revision being applied
revision_tree == revisions[Len(revisions)].tree

\* C3: set, delete and set_properties applied to a finalized tree, with the
\* arguments apply_node passes them, leave that tree and every finalized
\* subtree along the path unchanged (fingerprint, entry list, the child of
\* each entry, properties); a result that is the receiver means no change.
C3_FinalizedTreeUntouched ==
    (pc = "apply" /\ is_finalized(St, revision_tree)) =>
        /\ \A node \in DirAddNodes \cup DirCopyNodes :
             LET p == dir_node_subtree(St, revisions, node, revision_tree)
                 r == set(p.st, revision_tree, node.path, p.res)
             IN  (p.err = "" /\ p.st.err = "" /\ r.st.err = "") =>
                     Untouched(p.st, r.st, AlongPath(p.st, revision_tree, node.path))
        /\ \A node \in FileAddNodes :
             LET b == make_blob(St, node.text_content, <<>>)
                 r == set(b.st, revision_tree, node.path, b.res)
             IN  Untouched(b.st, r.st, AlongPath(b.st, revision_tree, node.path))
        /\ \A path \in Paths :
             LET r == delete(St, revision_tree, path)
             IN  Untouched(St, r.st, AlongPath(St, revision_tree, path))
        /\ \A path \in Paths \cup {<<>>}, pa \in PropArgs(MaxVal, 1) :
             LET t == find_path(St, revision_tree, path)
                 r == set_properties(St, t, pa[1], pa[2])
             IN  (t # 0 /\ is_dir(St, t) /\ is_finalized(St, t)) =>
                     /\ Untouched(St, r.st, {t})
                     /\ (r.err = "" /\ r.res = t) => DictEq(r.st.objs[t].properties, objs[t].properties)

\* ----------------------------------------------------------------------- C4
\* C4: every key of the object dictionary maps to an object whose svn_sha1 is
\* that key, and no step rebinds or removes a key that is bound.
C4_DictionaryAppendOnly ==
    [][/\ \A k \in DOMAIN obj_dictionary :
            /\ objs[obj_dictionary[k]].svn_sha1 = <<k>>
            /\ k \in DOMAIN obj_dictionary'
            /\ obj_dictionary'[k] = obj_dictionary[k]
       /\ \A k \in DOMAIN obj_dictionary' :
            objs'[obj_dictionary'[k]].svn_sha1 = <<k>>]_vars

\* finalize has met a bound key: an object carries the hash of another
\* instance, which the dictionary still holds
C4_Witness ==
    \E o \in 1..Len(objs) :
        /\ objs[o].svn_sha1 # NoHash
        /\ obj_dictionary[objs[o].svn_sha1[1]] # o
        /\ Cardinality(DOMAIN obj_dictionary) >= 3

\* ----------------------------------------------------------------------- C2
\* the content of an object: kind, hidden flag, data, the set of (key, value)
\* properties and the set of (name, child content) entries
RECURSIVE Content(_, _, _)
Content(st, o, n) ==
    [kind   |-> st.objs[o].kind,
     hidden |-> st.objs[o].hidden,
     data   |-> st.objs[o].data,
     props  |-> Range(st.objs[o].properties),
     items  |-> IF n = 0 THEN {}
                ELSE {<<st.its[i].name, Content(st, st.its[i].object, n - 1)>> :
                        i \in Range(st.objs[o].items)}]

\* the fingerprint finalize assigns to a fresh copy of o
Fingerprint(o) ==
    LET c == copy(St, o)
        r == finalize(c.st, c.res)
    IN  r.st.objs[c.res].svn_sha1

EntryNames(o) == [i \in 1..Len(objs[o].items) |-> its[objs[o].items[i]].name]

\* C2: objects of equal content get equal fingerprints from finalize, whatever
\* the order in which the set/delete operations and the property blocks of
\* the dump inserted their entries and properties; a fingerprint an object
\* carries is the one finalize would assign to its content now.
C2_FingerprintOfContent ==
    \A o1 \in 1..Len(objs) :
        /\ Fingerprint(o1) # NoHash
        /\ is_finalized(St, o1) => objs[o1].svn_sha1 = Fingerprint(o1)
        /\ \A o2 \in 1..Len(objs) :
             Content(St, o1, Len(objs)) = Content(St, o2, Len(objs))
                 => Fingerprint(o1) = Fingerprint(o2)

\* two objects hold the same properties inserted in different orders, and two
\* trees hold the same entries inserted in different orders
C2_Witness ==
    /\ \E o1, o2 \in 1..Len(objs) :
         /\ Content(St, o1, Len(objs)) = Content(St, o2, Len(objs))
         /\ objs[o1].properties # objs[o2].properties
    /\ \E t1, t2 \in 1..Len(objs) :
         /\ Content(St, t1, Len(objs)) = Content(St, t2, Len(objs))
         /\ EntryNames(t1) # EntryNames(t2)

\* ----------------------------------------------------------------------- C5
\* C5: load takes a revision only if its number is above the previous one: a
\* number not above it ends the load with Exception_history_parse and leaves
\* the table alone, a number above previous+1 adds one warning and is taken;
\* slot i of the revision table is None or holds the revision numbered i.
C5_StrictlyIncreasingRevisions ==
    [][/\ \A rev \in 0..MaxGapRev :
            LoadRevision(rev) =>
                IF prev_rev # <<>> /\ rev <= prev_rev[1]
                THEN /\ pc' = "failed"
                     /\ exc' = "Exception_history_parse"
                     /\ revisions' = revisions
                ELSE /\ pc' = "apply"
                     /\ warnings' = warnings +
                            (IF prev_rev # <<>> /\ rev > prev_rev[1] + 1 THEN 1 ELSE 0)
                     /\ Len(revisions') = rev + 1
                     /\ revisions'[rev + 1].rev = rev
       /\ \A i \in 1..Len(revisions') :
            revisions'[i] = NoRevision \/ revisions'[i].rev = i - 1]_vars

\* a gap has been taken with a warning, leaving a None slot, and the load then
\* ended on a revision number: the failed revision applied nodes and was
\* finalized, so the exception is not one of its nodes'
C5_Witness ==
    /\ pc = "failed"
    /\ exc = "Exception_history_parse"
    /\ warnings >= 1
    /\ \E i \in 1..Len(revisions) : revisions[i] = NoRevision
    /\ node_i >= 1
    /\ is_finalized(St, revision_tree)

\* ---------------------------------------------------------------------- C10
\* the map a block makes of a base map
BlockResult(base, block, is_delta) ==
    IF ~is_delta THEN Range(block)
    ELSE {e \in Range(block) : e[2] # 0}
         \cup {e \in Range(base) : \A j \in 1..Len(block) : block[j][1] # e[1]}

\* the block has a 'D' entry for a key the base map does not hold
DeletesAbsent(base, block, is_delta) ==
    is_delta /\ \E j \in 1..Len(block) : block[j][2] = 0 /\ ~DictHas(base, block[j][1])

\* the blocks the claim is checked with
CheckBlocks == PropArgs(MaxCheckVal, MaxBlock)

\* C10: a non-delta block becomes the object's whole property map; a delta
\* block gives the previous map with its valued entries overwritten or added
\* and its 'D' entries removed; a 'D' entry for an absent key raises
\* Exception_history_parse and leaves the object's map as it was.  Checked
\* while a revision is applied, for set_properties on every object and for a
\* file change node.
C10_PropertyBlock ==
    pc = "apply" =>
      /\ \A o \in 1..Len(objs), pa \in CheckBlocks :
           LET base == objs[o].properties
               r == set_properties(St, o, pa[1], pa[2])
           IN  IF DeletesAbsent(base, pa[1], pa[2])
               THEN /\ r.err = "Exception_history_parse"
                    /\ r.st.objs[o].properties = base
               ELSE /\ r.err = ""
                    /\ Range(r.st.objs[r.res].properties) = BlockResult(base, pa[1], pa[2])
                    /\ Len(r.st.objs[r.res].properties) = Cardinality(BlockResult(base, pa[1], pa[2]))
      /\ \A path \in TopPaths, pa \in CheckBlocks :
            LET old == find_path(St, revision_tree, path)
                base == objs[old].properties
                r == apply_node(St, revisions, WithProps(Node("file", "change", path), pa[1], pa[2]),
                                revision_tree)
                new == find_path(r.st, r.res, path)
            IN  (old # 0 /\ is_file(St, old)) =>
                    IF DeletesAbsent(base, pa[1], pa[2])
                    THEN /\ r.err = "Exception_history_parse"
                         /\ r.st.objs[old].properties = base
                    ELSE /\ r.err = ""
                         /\ Range(r.st.objs[new].properties) = BlockResult(base, pa[1], pa[2])

\* a revision is being applied whose tree holds a file and a directory that
\* carry properties set by earlier blocks: there are entries to overwrite, to
\* remove and to leave alone, and absent keys to fail on
C10_Witness ==
    /\ pc = "apply"
    /\ node_i >= 1
    /\ \E p1, p2 \in TopPaths :
         LET f == find_path(St, revision_tree, p1)
             d == find_path(St, revision_tree, p2)
         IN  /\ f # 0 /\ d # 0
             /\ is_file(St, f) /\ is_dir(St, d)
             /\ Len(objs[f].properties) = 1
             /\ Len(objs[d].properties) = MaxKey

\* ----------------------------------------------------------------------- C6
IsVersion(r) == r.type = "SVN-fs-dump-format-version" /\ r.lines = 1 /\ r.value \in {2, 3}

IsUUID(r) == r.type = "UUID" /\ r.value = 1

IsRevision(r) == r.type = "Revision-number" /\ r.value >= 0 /\ r.last = "Content-length"

IsNode(r) == r.type = "Node-path" /\ r.kind \in {"file", "dir"}

\* the index of the first record after the version and UUID records
Body(s) == IF Len(s) >= 2 /\ IsUUID(s[2]) THEN 3 ELSE 2

\* version record, optional UUID record, then revisions each followed by nodes
Grammar(s) ==
    Len(s) >= 1 =>
        /\ IsVersion(s[1])
        /\ \A i \in Body(s)..Len(s) : IsRevision(s[i]) \/ (IsNode(s[i]) /\ i > Body(s))

\* the revisions of a record sequence: each Revision-number record with the
\* paths of the Node-path records up to the next one
RECURSIVE Groups(_, _)
Groups(s, i) ==
    IF i < Body(s) THEN <<>>
    ELSE LET g == Groups(s, i - 1)
         IN  IF s[i].type = "Revision-number"
             THEN Append(g, [rev |-> s[i].value, nodes |-> <<>>])
             ELSE [g EXCEPT ![Len(g)].nodes = Append(@, s[i].value)]

\* the records taken in: all that were read but the one held in record
Accepted ==
    IF rd_pc \in {"revision", "nodes"} /\ record # <<>>
    THEN SubSeq(dump, 1, Len(dump) - 1)
    ELSE dump

\* the revisions yielded and the one being read, as (number, node paths)
Emitted ==
    [i \in 1..Len(yielded) |-> [rev |-> yielded[i].rev, nodes |-> yielded[i].nodes]]
    \o (IF rd_pc = "nodes"
        THEN <<[rev |-> revision[1].rev, nodes |-> revision[1].nodes]>>
        ELSE <<>>)

DumpAccepted ==
    rd_pc # "raised" =>
        /\ Grammar(Accepted)
        /\ Emitted = Groups(Accepted, Len(Accepted))

\* C6: what read_revisions has taken in without raising is a version record
\* of value 2 or 3, an optional UUID record, then Revision-number records each
\* followed by Node-path records; a record of another type where a revision
\* is to start raises Exception_svn_parse and yields nothing more; the
\* revisions yielded are those of the records taken in, each with its nodes
\* in the order of the file.
C6_RecordGrammar ==
    [][/\ (rd_pc = "revision" /\ record # <<>> /\ record[1].type # "Revision-number")
            => (rd_pc' = "raised" /\ rd_exc' = "Exception_svn_parse" /\ yielded' = yielded)
       /\ DumpAccepted
       /\ DumpAccepted']_vars

\* a revision with two nodes in file order was yielded after a UUID record,
\* and a record of another type then ended the reading
C6_Witness ==
    /\ rd_pc = "raised"
    /\ rd_exc = "Exception_svn_parse"
    /\ record # <<>> /\ record[1].type = "Other"
    /\ Len(yielded) = 1
    /\ yielded[1].nodes = <<2, 1>>
    /\ yielded[1].uuid_record # <<>>

\* ------------------------------------------------------------- C7, C8, C9
\* the svndiff meaning of a document, without the decoder: a copy from the
\* target view copies byte by byte, so that it may read what it has written
RECURSIVE RefCopyTarget(_, _, _)
RefCopyTarget(tv, offset, n) ==
    IF n = 0 THEN tv ELSE RefCopyTarget(Append(tv, tv[offset + 1]), offset + 1, n - 1)

\* the instructions of window w from the i-th on; used is the new data taken
RECURSIVE RefRun(_, _, _, _, _)
RefRun(w, base, i, tv, used) ==
    IF i > Len(w.instrs) THEN [status |-> "ok", tv |-> tv]
    ELSE LET ins == w.instrs[i]
         IN  IF ins.op = 0
             THEN IF ins.offset + ins.len > w.source_view_length
                  THEN [status |-> "source view", tv |-> tv]
                  ELSE RefRun(w, base, i + 1,
                              tv \o SubSeq(base, w.source_offset + ins.offset + 1,
                                           w.source_offset + ins.offset + ins.len), used)
             ELSE IF ins.op = 1
             THEN IF ins.offset >= Len(tv)
                  THEN [status |-> "target view", tv |-> tv]
                  ELSE RefRun(w, base, i + 1, RefCopyTarget(tv, ins.offset, ins.len), used)
             ELSE IF ins.op = 2
             THEN IF used + ins.len > Len(w.data)
                  THEN [status |-> "data", tv |-> tv]
                  ELSE RefRun(w, base, i + 1,
                              tv \o SubSeq(w.data, used + 1, used + ins.len), used + ins.len)
             ELSE [status |-> "opcode", tv |-> tv]

RefWindow(w, base) ==
    IF w.source_offset + w.source_view_length > Len(base)
    THEN [status |-> "source", tv |-> <<>>]
    ELSE LET r == RefRun(w, base, 1, <<>>, 0)
         IN  IF r.status = "ok" /\ Len(r.tv) # w.target_view_length
             THEN [status |-> "length", tv |-> <<>>]
             ELSE r

\* the windows from the i-th on: the first status that is not ok, else the target
RECURSIVE RefWindows(_, _, _, _)
RefWindows(ws, base, i, target) ==
    IF i > Len(ws) THEN [status |-> "ok", target |-> target]
    ELSE LET r == RefWindow(ws[i], base)
         IN  IF r.status # "ok" THEN [status |-> r.status, target |-> <<>>]
             ELSE RefWindows(ws, base, i + 1, target \o r.tv)

RefDoc(doc, base) ==
    IF Len(doc.header) # 4 \/ SubSeq(doc.header, 1, 3) # <<83, 86, 78>> \/ doc.cut # 0
        THEN [status |-> "damaged", target |-> <<>>]
    ELSE IF doc.header[4] > 2 THEN [status |-> "version", target |-> <<>>]
    ELSE IF doc.packed THEN [status |-> "packed", target |-> <<>>]
    ELSE RefWindows(doc.windows, base, 1, <<>>)

Finished == d_pc \in {"done", "raised"}

\* C7: a document whose window program encodes target T against the base is
\* decoded to T, a copy from the target view that runs past the bytes
\* produced so far re-reading what it has written.
C7_DeltaRoundTrip ==
    (Finished /\ RefDoc(delta_doc, base_text).status = "ok") =>
        /\ d_pc = "done"
        /\ target_data = RefDoc(delta_doc, base_text).target

\* C8: a source view that ends past the base, a copy of more new data than the
\* data section holds, an op selector 0xC0, a header version above 2 and a
\* window whose bytes are not as many as its target view length all end in
\* Exception_svn_parse.
C8_DeltaErrors ==
    (/\ Finished
     /\ RefDoc(delta_doc, base_text).status \in {"source", "data", "opcode", "version", "length"}
     /\ DocVersion(delta_doc) \notin {1, 2}) =>
        /\ d_pc = "raised"
        /\ d_exc = "Exception_svn_parse"

\* C9: in a version 1 or 2 document each section is read as its original
\* length and then its bytes, which are used as they are when the original
\* length is the stored length: the document is read to its end and decoded
\* to the target it encodes.
C9_VerbatimSections ==
    (/\ Finished
     /\ DocVersion(delta_doc) \in {1, 2}
     /\ RefDoc(delta_doc, base_text).status = "ok") =>
        /\ d_pc = "done"
        /\ fd_pos = Len(text_content)
        /\ target_data = RefDoc(delta_doc, base_text).target

\* ---------------------------------------------------------------------- C11
\* the add nodes of the dump: directories, directory copies, files with text
AddNodes == DirAddNodes \cup DirCopyNodes \cup FileAddNodes

\* the copy source of the node is a directory of an earlier revision
CopySourceOk(node) ==
    LET src == get_revision(revisions, node.copyfrom_rev)
        found == find_path(St, src.r.tree, node.copyfrom_path)
    IN  /\ node.copyfrom_rev < Len(revisions) - 1
        /\ src.err = "" /\ found # 0 /\ is_dir(St, found)

Front(path) == SubSeq(path, 1, Len(path) - 1)

\* C11: an add of a file or directory at a path that holds an object which
\* is not hidden raises Exception_history_parse; at a path that holds a
\* hidden object the add goes through (given its copy source), and the path
\* then holds another object, of the node's kind and text, which is hidden
\* only if its parent directory is.
C11_AddOverExisting ==
    pc = "apply" =>
        \A node \in AddNodes :
            LET old == find_path(St, revision_tree, node.path)
                r == apply_node(St, revisions, node, revision_tree)
                new == find_path(r.st, r.res, node.path)
                parent == find_path(r.st, r.res, Front(node.path))
            IN  /\ (old # 0 /\ ~objs[old].hidden) => Exc(r) = "Exception_history_parse"
                /\ (old # 0 /\ objs[old].hidden /\ (node.has_copyfrom => CopySourceOk(node))) =>
                       /\ Exc(r) = ""
                       /\ new # 0 /\ new # old
                       /\ r.st.objs[new].kind = (IF node.kind = "dir" THEN "tree" ELSE "blob")
                       /\ r.st.objs[new].data = node.text_content
                       /\ (~node.has_copyfrom /\ node.kind = "dir") => r.st.objs[new].items = <<>>
                       /\ r.st.objs[new].hidden = r.st.objs[parent].hidden

\* a revision is being applied whose tree holds a hidden file below a
\* directory that is not hidden, a hidden directory, and an entry that is
\* not hidden
C11_Witness ==
    /\ pc = "apply"
    /\ \E p, q \in Paths :
         LET a == find_path(St, revision_tree, p)
             b == find_path(St, revision_tree, q)
             d == find_path(St, revision_tree, Front(p))
         IN  /\ a # 0 /\ b # 0 /\ a # b
             /\ is_file(St, a) /\ objs[a].hidden /\ ~objs[d].hidden
             /\ is_dir(St, b) /\ objs[b].hidden
    /\ \E p \in Paths :
         LET a == find_path(St, revision_tree, p)
         IN  a # 0 /\ ~objs[a].hidden

\* ---------------------------------------------------------------------- C12
\* C12: an add of a file or directory whose parent directory is not in the
\* tree of the revision, or is a file there, raises Exception_history_parse
\* and makes nothing: no object and no entry is added.
C12_StrictParent ==
    pc = "apply" =>
        \A node \in AddNodes :
            LET parent == find_path(St, revision_tree, Front(node.path))
                r == apply_node(St, revisions, node, revision_tree)
            IN  (parent = 0 \/ ~is_dir(St, parent)) =>
                    /\ Exc(r) = "Exception_history_parse"
                    /\ r.st.objs = objs
                    /\ r.st.its = its

\* ---------------------------------------------------------------------- C13
\* the node with action replace
Replace(node) == [node EXCEPT !.action = "replace"]

\* the node applied after a delete of its path, the delete having been
\* applied to the tree of the revision as apply_revision does
DeleteThenAdd(node) ==
    LET d == apply_node(St, revisions, Node("none", "delete", node.path), revision_tree)
        a == apply_node(d.st, [revisions EXCEPT ![Len(revisions)].tree = d.res], node, d.res)
    IN  IF d.err # "" THEN d ELSE a

\* C13: a node with action replace gives what a delete of its path followed
\* by the add of the same kind, copy source, properties and text gives: the
\* same exception, or the same tree in the same heap; a replace of a path
\* that is not in the tree raises Exception_history_parse; when apply_node
\* returns, node.action is replace again.
C13_ReplaceIsDeleteThenAdd ==
    pc = "apply" =>
        \A node \in AddNodes :
            LET rep == apply_node(St, revisions, Replace(node), revision_tree)
                two == DeleteThenAdd(node)
            IN  /\ find_path(St, revision_tree, node.path) = 0
                       => Exc(rep) = "Exception_history_parse"
                /\ Exc(rep) = Exc(two)
                /\ Exc(rep) = "" =>
                       /\ rep.res = two.res
                       /\ rep.st = two.st
                       /\ rep.action = "replace"

\* ---------------------------------------------------------------------- C14
FileChanges == {n \in FileChangeNodes : ~n.has_copyfrom}

\* what the change node's text makes of the data of the current blob o
ChangedData(node, o) ==
    IF node.text_is_delta
        THEN apply_delta(node.text_content[1], objs[o].data[1], lz4_module)
    ELSE IF node.text_content # NoData THEN [err |-> "", data |-> node.text_content]
    ELSE [err |-> "", data |-> objs[o].data]

\* what the change node's property block makes of the properties of o
ChangedProperties(node, o) ==
    IF node.has_props /\ node.props_is_delta
        THEN apply_delta_to_properties(objs[o].properties, node.props)
    ELSE IF node.has_props THEN [err |-> "", props |-> node.props]
    ELSE [err |-> "", props |-> objs[o].properties]

\* the node r was returned for leaves at its path a file of the given data
\* and properties, or raises the exception of the text or of the block
FileChanged(r, node, text, block) ==
    LET new == find_path(r.st, r.res, node.path)
    IN  IF text.err # "" THEN Exc(r) = text.err
        ELSE IF block.err # "" THEN Exc(r) = block.err
        ELSE /\ Exc(r) = ""
             /\ new # 0
             /\ is_file(r.st, new)
             /\ r.st.objs[new].data = text.data
             /\ DictEq(r.st.objs[new].properties, block.props)

RECURSIVE Shown(_, _, _)
Shown(st, o, n) ==
    [kind   |-> st.objs[o].kind,
     hidden |-> FALSE,
     data   |-> st.objs[o].data,
     props  |-> Range(st.objs[o].properties),
     items  |-> IF n = 0 THEN {}
                ELSE {<<st.its[i].name, Shown(st, st.its[i].object, n - 1)>> :
                        i \in Range(st.objs[o].items)}]

\* no directory above the path is hidden in the tree of the revision
ShownAbove(path) ==
    \A k \in 0..(Len(path) - 1) :
        LET o == find_path(St, revision_tree, SubSeq(path, 1, k))
        IN  o # 0 => ~objs[o].hidden

\* the tree of the copy source revision of the node
SourceTree(node) == get_revision(revisions, node.copyfrom_rev).r.tree

\* the edits under a path: directories added and paths deleted
EditsUnder(path) == {e \in DirAddNodes \cup DeleteNodes : IsPrefix(path, e.path)}

\* C15: after a directory add with copy source (p, r) the object at the target
\* path has the content of the subtree at p in revision r with hidden cleared
\* on it and on all its descendants; the tree of revision r has the content it
\* had before the copy, and still has it after a later edit under the target
\* path.
C15_DirectoryCopy ==
    pc = "apply" =>
        \A node \in DirCopyNodes :
            CopySourceOk(node) =>
                LET r == apply_node(St, revisions, node, revision_tree)
                    new == find_path(r.st, r.res, node.path)
                    src == find_path(St, SourceTree(node), node.copyfrom_path)
                    was == Content(St, SourceTree(node), Len(objs))
                IN  Exc(r) = "" =>
                        /\ ShownAbove(node.path) =>
                               Content(r.st, new, Len(r.st.objs)) = Shown(St, src, Len(objs))
                        /\ Content(r.st, SourceTree(node), Len(r.st.objs)) = was
                        /\ \A e \in EditsUnder(node.path) :
                               LET r2 == apply_node(r.st,
                                             [revisions EXCEPT ![Len(revisions)].tree = r.res],
                                             e, r.res)
                               IN  Exc(r2) = "" =>
                                       Content(r2.st, SourceTree(node), Len(r2.st.objs)) = was

\* ---------------------------------------------------------------------- C16
IsProperPrefix(q, p) == Len(q) < Len(p) /\ SubSeq(p, 1, Len(q)) = q

\* no range set is empty, and no range set meets the range set of a path
\* above it
IsNormalized(m) ==
    \A i \in 1..Len(m.paths_dict) :
        /\ m.paths_dict[i][2] # <<>>
        /\ \A j \in 1..Len(m.paths_dict) :
               IsProperPrefix(m.paths_dict[j][1], m.paths_dict[i][1])
                   => RevsOf(m.paths_dict[i][2]) \cap RevsOf(m.paths_dict[j][2]) = {}

\* the mergeinfo objects of the state
Mergeinfos ==
    Range(self_mergeinfo) \cup Range(prev_mergeinfo) \cup Range(mergeinfo_diff)
    \cup {tree_mergeinfo[i][2] : i \in 1..Len(tree_mergeinfo)}

\* C16: a mergeinfo that normalize has returned from, and the mergeinfo that
\* build_mergeinfo(normalize=True) returns for the tree_mergeinfo, is flagged
\* normalized, maps no path to an empty range set and gives no path a
\* revision that a path above it has as well; this holds of every mergeinfo
\* flagged normalized.
C16_Normalized ==
    /\ \A m \in Mergeinfos :
           /\ normalize(m).normalized
           /\ IsNormalized(normalize(m))
    /\ build_mergeinfo(tree_mergeinfo, TRUE).normalized
    /\ IsNormalized(build_mergeinfo(tree_mergeinfo, TRUE))
    /\ m_pc = "normalized" => mergeinfo_diff[1].normalized

\* build_mergeinfo(normalize=True) has returned a mergeinfo for a
\* tree_mergeinfo whose entries give three paths, one above the other, range
\* sets that meet, and a path has lost all its revisions
C16_Witness ==
    /\ m_pc = "built"
    /\ self_mergeinfo[1].normalized
    /\ Len(build_mergeinfo(tree_mergeinfo, FALSE).paths_dict) = 3
    /\ ~IsNormalized(build_mergeinfo(tree_mergeinfo, FALSE))
    /\ Len(self_mergeinfo[1].paths_dict) = 2
    /\ self_mergeinfo[1] = build_mergeinfo(tree_mergeinfo, TRUE)

\* ---------------------------------------------------------------------- C17
\* the revisions of self at the path that prev has neither at the path nor at
\* a path above it
NotCovered(self, prev_mi, path) ==
    RevsOf(get_ranges(self.paths_dict, path))
    \ UNION {RevsOf(prev_mi.paths_dict[j][2]) :
                 j \in {k \in 1..Len(prev_mi.paths_dict) :
                            \/ prev_mi.paths_dict[k][1] = path
                            \/ IsProperPrefix(prev_mi.paths_dict[k][1], path)}}

IsDiff(diff, self, prev_mi) ==
    \A path \in MergePaths :
        /\ DictHas(diff.paths_dict, path) <=> NotCovered(self, prev_mi, path) # {}
        /\ RevsOf(get_ranges(diff.paths_dict, path)) = NotCovered(self, prev_mi, path)
        /\ get_ranges(diff.paths_dict, path) = RangesOf(NotCovered(self, prev_mi, path))

GetDiffStep == m_pc = "built" /\ m_pc' = "diff"

\* C17: get_diff returns a mergeinfo that has, for each path, exactly the
\* revisions of self at that path which prev has neither at that path nor at
\* a path above it, and no entry for a path with no such revision; self and
\* prev are what they were before the call; the diff of a built mergeinfo
\* against itself, and against a mergeinfo built again from the same
\* tree_mergeinfo, is empty.
C17_GetDiff ==
    [][/\ GetDiffStep =>
              /\ IsDiff(mergeinfo_diff'[1], self_mergeinfo[1], prev_mergeinfo[1])
              /\ self_mergeinfo' = self_mergeinfo
              /\ prev_mergeinfo' = prev_mergeinfo
              /\ tree_mergeinfo' = tree_mergeinfo
       /\ \A norm \in BOOLEAN :
              /\ get_diff(build_mergeinfo(tree_mergeinfo, norm),
                          build_mergeinfo(tree_mergeinfo, norm)).paths_dict = <<>>
              /\ self_mergeinfo # <<>> =>
                     get_diff(self_mergeinfo[1], self_mergeinfo[1]).paths_dict = <<>>]_vars

\* get_diff has returned: prev covers revisions of self at a path from a path
\* above it, some revisions of that path are left, and another path of self
\* is covered wholly
C17_Witness ==
    /\ m_pc = "diff"
    /\ \E i \in 1..Len(self_mergeinfo[1].paths_dict) :
         LET path == self_mergeinfo[1].paths_dict[i][1]
             ranges == self_mergeinfo[1].paths_dict[i][2]
         IN  /\ ~DictHas(prev_mergeinfo[1].paths_dict, path)
             /\ DictHas(mergeinfo_diff[1].paths_dict, path)
             /\ DictGet(mergeinfo_diff[1].paths_dict, path) # ranges
    /\ \E i \in 1..Len(self_mergeinfo[1].paths_dict) :
         /\ self_mergeinfo[1].paths_dict[i][2] # <<>>
         /\ ~DictHas(mergeinfo_diff[1].paths_dict, self_mergeinfo[1].paths_dict[i][1])


\* ---------------------------------------------------------------------- C18
\* the pending parents of a branch-rev, {} for None
Pending(h, self) ==
    IF h[self].revisions_to_merge = <<>> THEN <<>> ELSE h[self].revisions_to_merge[1]

KeyOf(h, rev_info) == <<h[rev_info].branch, h[rev_info].index_seq>>

\* number of places of a sequence that hold x
Count(seq, x) == Cardinality({k \in 1..Len(seq) : seq[k] = x})

\* add_rev, a revision with a tree that is not merged already, was requested
\* for self: its key has one pending parent, the higher of add_rev and the
\* parent that was pending for the key; the other keys keep theirs; a request
\* at the pending revision or a lower one changes nothing
RequestedOnce(self, add_rev) ==
    LET key == KeyOf(brevs, add_rev)
        before == Pending(brevs, self)
        after == Pending(brevs', self)
    IN  /\ Cardinality({k \in 1..Len(after) : after[k][1] = key}) = 1
        /\ IF DictHas(before, key) /\ brevs[DictGet(before, key)].rev >= brevs[add_rev].rev
           THEN brevs' = brevs
           ELSE DictGet(after, key) = add_rev
        /\ \A k \in 1..Len(before) :
               before[k][1] # key => DictHas(after, before[k][1])
                                     /\ DictGet(after, before[k][1]) = before[k][2]
        /\ \A k \in 1..Len(after) : after[k][1] = key \/ DictHas(before, after[k][1])

\* the commit written for rev_info lists no commit twice, and the commit of
\* every parent of rev_info that has one exactly once
ParentsOnce(rev_info) ==
    LET commit == commits'[Len(commits')]
        parents == brevs'[rev_info].parents
    IN  /\ \A c \in 1..Len(commits) : Count(commit.parents, c) <= 1
        /\ \A k \in 1..Len(parents) :
               brevs'[parents[k]].commit # 0
                   => Count(commit.parents, brevs'[parents[k]].commit) = 1
        /\ \A k \in 1..Len(Pending(brevs, rev_info)) :
               LET source == Pending(brevs, rev_info)[k][2]
               IN  brevs[source].commit # 0
                   /\ (\E j \in 1..Len(parents) : parents[j] = source)
                       => Count(commit.parents, brevs[source].commit) = 1

\* C18: requesting the same merge source again for a branch-rev, at the same or
\* a lower revision, leaves one pending parent for the (branch, index_seq) key
\* of the source, the one of the highest revision requested, and the commit
\* written for the branch-rev has the commit of that source as a parent
\* exactly once.
C18_MergeParentOnce ==
    [][/\ p_pc'.op = "add"
          /\ brevs[p_pc'.add].tree # 0
          /\ ~is_merged_from(brevs, p_pc'.self, p_pc'.add)
              => RequestedOnce(p_pc'.self, p_pc'.add)
       /\ p_pc'.op = "finalize" /\ commits' # commits => ParentsOnce(p_pc'.self)]_vars

\* the source was requested at a higher revision and then at a lower one: the
\* higher one is pending
C18_Witness ==
    /\ p_pc.op = "add"
    /\ brevs[p_pc.add].tree # 0
    /\ ~is_merged_from(brevs, p_pc.self, p_pc.add)
    /\ DictHas(Pending(brevs, p_pc.self), KeyOf(brevs, p_pc.add))
    /\ brevs[DictGet(Pending(brevs, p_pc.self), KeyOf(brevs, p_pc.add))].rev
           > brevs[p_pc.add].rev

\* ---------------------------------------------------------------------- C19
\* the commits c is reached from along parents, c not among them unless a
\* parent leads back to it
RECURSIVE Ancestors(_, _)
Ancestors(cs, c) ==
    LET ps == {cs[c].parents[k] : k \in 1..Len(cs[c].parents)}
    IN  ps \cup UNION {Ancestors(cs, p) : p \in ps}

\* finalize_commit(rev_info) has written one commit, with these parents
Written(parents) ==
    /\ Len(commits') = Len(commits) + 1
    /\ commits'[Len(commits')].parents = parents

\* rev_info has two parents, the tree committed for the second is the tree
\* staged for rev_info and the commit of the first parent is an ancestor of the
\* commit of the second
TwoParentFastForward(rev_info) ==
    /\ Len(brevs[rev_info].parents) = 2
    /\ brevs[brevs[rev_info].parents[2]].committed_git_tree
           = brevs[rev_info].staged_git_tree
    /\ brevs[brevs[rev_info].parents[1]].commit # 0
    /\ brevs[brevs[rev_info].parents[2]].commit # 0
    /\ brevs[brevs[rev_info].parents[1]].commit
           \in Ancestors(commits, brevs[brevs[rev_info].parents[2]].commit)

\* C19 as stated: when a branch-rev has exactly two parents, the tree of the
\* second equals the staged tree and the first parent is an ancestor of the
\* second, finalize_commit writes the commit with the second parent as its
\* only parent.
C19_OneParentCommit ==
    [][p_pc'.op = "finalize" /\ TwoParentFastForward(p_pc'.self)
           => Written(<<brevs[brevs[p_pc'.self].parents[2]].commit>>)]_vars

\* C19 amended: when a branch-rev has exactly two parents, the tree committed
\* for the second is the staged tree and not the empty tree, and the revision of
\* the branch that the second parent has merged is, empty revisions passed
\* over, the first parent, finalize_commit drops the first parent; it writes no
\* commit and gives the branch-rev the commit and the tree of the second
\* parent, unless merge children add parents: then it writes the commit with
\* the second parent's commit first.
C19_FastForward ==
    [][p_pc'.op = "finalize" /\ fast_forward(brevs, p_pc'.self) =>
           LET rev_info == p_pc'.self
               second == brevs[rev_info].parents[2]
               parents == brevs'[rev_info].parents
           IN  /\ parents[1] = second
               /\ brevs[second].commit # 0
               /\ brevs[rev_info].parents[1] = second
                      \/ \A k \in 1..Len(parents) : parents[k] # brevs[rev_info].parents[1]
               /\ IF Len(parents) = 1
                  THEN /\ commits' = commits
                       /\ brevs'[rev_info].commit = brevs[second].commit
                       /\ brevs'[rev_info].committed_git_tree
                              = brevs[second].committed_git_tree
                  ELSE /\ Written([k \in 1..Len(parents) |-> brevs[parents[k]].commit])
                       /\ brevs'[rev_info].commit = Len(commits')]_vars

\* a fast forward: the branch-rev comes after a revision with a tree, which
\* was its first parent; its only parent now is a revision of another branch,
\* and its commit is the commit of that revision, not the one of the first
\* parent
C19_Witness ==
    /\ p_pc.op = "finalize"
    /\ brevs[brevs[p_pc.self].prev_rev].staged_tree # 0
    /\ Len(brevs[p_pc.self].parents) = 1
    /\ brevs[brevs[p_pc.self].parents[1]].branch # brevs[p_pc.self].branch
    /\ brevs[p_pc.self].commit # 0
    /\ brevs[p_pc.self].commit = brevs[brevs[p_pc.self].parents[1]].commit
    /\ brevs[p_pc.self].commit # brevs[brevs[p_pc.self].prev_rev].commit


\* ---------------------------------------------------------------------- C20
\* the refnames of the ref writes so far are all different
NoDuplicateRefs(updates) ==
    \A i, j \in 1..Len(updates) : i < j => updates[i].ref # updates[j].ref

\* n is the smallest suffix, of those the loop of make_unique_refname tries,
\* that gives a name with no node in all_refs
SmallestFree(t, refname, n) ==
    /\ ~get_node(t, ref_suffix(refname, n))
    /\ \A j \in 1..(n - 1) : get_node(t, ref_suffix(refname, j))

\* a leaf on the way to the name that has not been reported for it
LeafConflict(t, new_ref) ==
    path_tree_find_path(t, new_ref) /\ ~get_used_by(t, new_ref, new_ref, FALSE)

UniqueRefStep ==
    /\ NoDuplicateRefs(ref_updates')
    /\ u_pc'.op \in {"update_ref", "create_tag", "make_unique_refname"}
           => /\ u_pc'.ret = <<>> => ref_updates' = ref_updates
              /\ u_pc'.ret # <<>> /\ Len(ref_updates') > Len(ref_updates)
                     => /\ Len(ref_updates') = Len(ref_updates) + 1
                        /\ ref_updates'[Len(ref_updates')].ref = u_pc'.ret[1]
              /\ u_pc'.ref # <<>> /\ get_node(all_refs, u_pc'.ref)
                     => IF u_pc'.ret # <<>>
                        THEN \E n \in 1..(SuffixRange - 2) :
                                 /\ u_pc'.ret = <<ref_suffix(u_pc'.ref, n)>>
                                 /\ SmallestFree(all_refs, u_pc'.ref, n)
                        ELSE \A n \in 1..(SuffixRange - 2) :
                                 SmallestFree(all_refs, u_pc'.ref, n)
                                     => LeafConflict(all_refs, ref_suffix(u_pc'.ref, n))

\* C20: over a whole run no two ref writes (queue_update_ref or git tag) use
\* the same refname; a request of a name that is taken gets the name with the
\* suffix ___<n> of the smallest n that is free among the suffixes tried, and
\* gets no name, with nothing written, when none is free or when the name
\* found lies below a leaf
C20_UniqueRefnames == [][UniqueRefStep]_vars

\* refs/heads/a is asked for while refs/heads/a, a___1 and a___2 are taken:
\* refs/heads/a___3 is written
C20_Witness ==
    /\ u_pc.op = "update_ref"
    /\ u_pc.ref = ManyRef
    /\ u_pc.ret = <<ref_suffix(ManyRef, 3)>>
    /\ ref_updates # <<>>
    /\ ref_updates[Len(ref_updates)].ref = ref_suffix(ManyRef, 3)
    /\ \E i \in 1..Len(ref_updates) : ref_updates[i].ref = <<<<1>>, <<3, 2>>>>

\* the loop of make_unique_refname has come to its end: no name, no write
NoFreeRefname ==
    /\ u_pc.op = "update_ref"
    /\ u_pc.ref = ManyRef
    /\ u_pc.ret = <<>>
    /\ Len(ref_updates) >= SuffixRange - 2


\* ---------------------------------------------------------------------- C21
\* the branch revision has been prepared: finalize_commit is its function
IsRevItem(i) == workitems[i].func = "finalize_commit"

\* the branch revisions before rev_info in its prev_rev chain
RECURSIVE PrevRevs(_)
PrevRevs(rev_info) ==
    IF workitems[rev_info].owner = 0 THEN {}
    ELSE {workitems[rev_info].owner} \cup PrevRevs(workitems[rev_info].owner)

\* C21: finalize_commit of a branch revision starts only after
\* finalize_commit of every prepared revision before it in the prev_rev chain
\* has completed, in whatever order the work items finish; the commits of
\* one branch are made in the order of the chain
C21_CommitOrder ==
    /\ \A R2 \in 1..Len(workitems) :
           IsRevItem(R2) /\ workitems[R2].st # "new"
               => \A R1 \in PrevRevs(R2) : IsRevItem(R1) => workitems[R1].st = "done"
    /\ \A j, k \in 1..Len(w_commits) :
           w_commits[j] \in PrevRevs(w_commits[k]) => j < k

\* finalize_commit of a revision runs, the revision before it has its commit,
\* and the blob of the later revision was hashed before that
C21_Witness ==
    \E R2 \in 1..Len(workitems) :
        /\ IsRevItem(R2)
        /\ workitems[R2].st = "run"
        /\ workitems[R2].owner # 0
        /\ IsRevItem(workitems[R2].owner)
        /\ w_commits = <<workitems[R2].owner>>
        /\ \E i \in 1..Len(workitems) :
               workitems[i].func = "hash_object" /\ workitems[i].owner = R2

\* ---------------------------------------------------------------------- C22
Serializers == {i \in 1..Len(workitems) : workitems[i].completion = "do_dump"}

\* C22: the buffer of every log serializer is written once, after the buffer
\* of the serializer it is chained from: the log file holds the fragments in
\* the order the serializers were made
C22_LogOrder ==
    \A k \in 1..Len(log_output) :
        /\ log_output[k] \in Serializers
        /\ Cardinality({ser \in Serializers : ser < log_output[k]}) = k - 1
        /\ \A dep \in workitems[log_output[k]].deps :
               dep \in Serializers => \E j \in 1..(k - 1) : log_output[j] = dep

\* the commit of the revision prepared second was made first, and the
\* fragments of both revisions are in the log file, the one of the revision
\* prepared first before the other
C22_Witness ==
    /\ Len(w_commits) = 2
    /\ \E k1, k2 \in 1..Len(log_output) :
           /\ k1 < k2
           /\ w_commits[2] \in workitems[log_output[k1]].deps
           /\ w_commits[1] \in workitems[log_output[k2]].deps

\* ---------------------------------------------------------------------- C23
\* the read-tree and write-tree items of a branch revision
TreeItems(rev_info) ==
    {i \in 1..Len(workitems) :
         workitems[i].func \in {"read_tree", "write_tree"} /\ workitems[i].owner = rev_info}

\* C23: no two read-tree or write-tree calls run at the same time, and the
\* update-index step of a branch revision starts only after its own read-tree
\* when the staging base is foreign, and otherwise after the write-tree of the
\* revisions before it that use the same index file
C23_IndexOrder ==
    /\ Cardinality({i \in 1..Len(workitems) :
                        /\ workitems[i].st = "run"
                        /\ workitems[i].func \in {"read_tree", "write_tree"}}) <= 1
    /\ \A i \in 1..Len(workitems) :
           workitems[i].func = "stage_changes" /\ workitems[i].st # "new"
               => LET rev_info == workitems[i].owner
                  IN  IF workitems[rev_info].staging_base # workitems[rev_info].owner
                      THEN \E t \in TreeItems(rev_info) :
                               workitems[t].func = "read_tree" /\ workitems[t].st = "done"
                      ELSE \A R1 \in PrevRevs(rev_info) :
                               \A t \in TreeItems(R1) : workitems[t].st = "done"

\* update-index of a revision runs after the write-tree of the revision
\* before it is done
C23_Witness ==
    \E i, t \in 1..Len(workitems) :
        /\ workitems[i].func = "stage_changes"
        /\ workitems[i].st = "run"
        /\ workitems[t].func = "write_tree"
        /\ workitems[t].owner = workitems[workitems[i].owner].owner
        /\ workitems[t].st = "done"

\* ---------------------------------------------------------------------- C24
\* branch b is at or below the directory of the node and has a tree or a
\* commit
HitByDelete(path, b) ==
    /\ IsPrefix(path, branch_path(b))
    /\ brevs[branches[b].HEAD].tree # 0 \/ brevs[branches[b].HEAD].commit # 0

\* the deletions the node has recorded
NewDeleted == SubSeq(deleted_revs', Len(deleted_revs) + 1, Len(deleted_revs'))

\* the node has recorded one deletion for every branch it hits, the stage of
\* the branch, and a branch below another before that one; the other branches
\* are as they were
DeletionsRecorded(path) ==
    /\ SubSeq(deleted_revs', 1, Len(deleted_revs)) = deleted_revs
    /\ Len(NewDeleted) = Cardinality({b \in Branches : HitByDelete(path, b)})
    /\ \A b \in Branches :
           IF HitByDelete(path, b)
           THEN \E k \in 1..Len(NewDeleted) : NewDeleted[k] = branches[b].stage
           ELSE branches'[b] = branches[b]
    /\ \A k \in 1..Len(NewDeleted) : \A j \in 1..(k - 1) :
           ~IsProperPrefix(branch_path(brevs[NewDeleted[j]].branch),
                           branch_path(brevs[NewDeleted[k]].branch))

\* branch b goes on with the next index and a HEAD made by the node, which has
\* no tree, no commit, no parents and no merged revisions
Restarted(b) ==
    LET HEAD == branches'[b].HEAD
    IN  /\ branches'[b].index_seq = branches[b].index_seq + 1
        /\ HEAD > Len(brevs)
        /\ brevs'[HEAD].index_seq = branches'[b].index_seq
        /\ brevs'[HEAD].prev_rev = 0
        /\ brevs'[HEAD].tree = 0
        /\ brevs'[HEAD].commit = 0
        /\ brevs'[HEAD].parents = <<>>
        /\ brevs'[HEAD].merged_revisions = <<>>
        /\ brevs'[branches'[b].stage].prev_rev = HEAD

\* the revisions of the incarnation of rev_info up to rev_info
RECURSIVE Incarnation(_, _)
Incarnation(h, rev_info) ==
    IF rev_info = 0 THEN {} ELSE {rev_info} \cup Incarnation(h, h[rev_info].prev_rev)

\* a revision of the incarnation of old was added as a merge or copy source
\* to a revision of the incarnation of self
AddedAsSource(h, self, old) ==
    \E r \in Incarnation(h, self) : DictHas(Pending(h, r), KeyOf(h, old))

\* a revision that has a revision of the incarnation of old among its merged
\* revisions was added as a merge or copy source
AddedMerged(h, self, old) ==
    \E r \in Incarnation(h, self) : \E k \in 1..Len(Pending(h, r)) :
        DictHas(h[Pending(h, r)[k][2]].merged_revisions, KeyOf(h, old))

\* the revisions of one branch, self of a later incarnation than old, with
\* old taken as merged to self
MergedFromOld(h, self, old) ==
    /\ h[self].branch = h[old].branch
    /\ h[self].index_seq > h[old].index_seq
    /\ is_merged_from(h, self, old)

DeleteStep ==
    p_pc'.op = "delete" =>
        /\ DeletionsRecorded(deleted_path')
        /\ \A b \in Branches : HitByDelete(deleted_path', b) => Restarted(b)

\* C24 as stated: a delete, hide or replace node of a directory records a
\* deletion for every branch at or below the path that has a tree or a commit,
\* children before their parents, adds one to the index_seq of the branch and
\* gives it a fresh HEAD without tree, parents and merged revisions; and a
\* branch-rev of a new incarnation is taken as merged from the old incarnation
\* only when the old incarnation was added to it as a merge or copy source.
C24_DeletedBranches ==
    [][/\ DeleteStep
       /\ \A self \in 1..Len(brevs'), old \in 1..Len(brevs') :
              MergedFromOld(brevs', self, old) => AddedAsSource(brevs', self, old)]_vars

\* C24 amended: the same, and a branch-rev of a new incarnation is taken as
\* merged from the old incarnation only when the old incarnation, or a revision
\* that has the old incarnation among its merged revisions, was added to the
\* new incarnation as a merge or copy source.
C24_DeletedBranchesInherited ==
    [][/\ DeleteStep
       /\ \A self \in 1..Len(brevs'), old \in 1..Len(brevs') :
              MergedFromOld(brevs', self, old)
                  => \/ AddedAsSource(brevs', self, old)
                     \/ AddedMerged(brevs', self, old)]_vars

\* the directory of branch 1 was deleted when branch 1 and its child branch 3
\* had a tree: the deletion of branch 3 is recorded, then the one of branch 1,
\* and both have the index 1
C24_Witness ==
    /\ p_pc.op = "delete"
    /\ deleted_path = <<1>>
    /\ Len(deleted_revs) = 2
    /\ brevs[deleted_revs[1]].branch = 3
    /\ brevs[deleted_revs[2]].branch = 1
    /\ branches[1].index_seq = 1
    /\ branches[3].index_seq = 1
    /\ brevs[branches[1].HEAD].tree = 0

\* the old incarnation is merged to the new one through another branch: it
\* was not added as a source, a revision it is merged to was
MergedThroughBranch ==
    \E self \in 1..Len(brevs), old \in 1..Len(brevs) :
        /\ MergedFromOld(brevs, self, old)
        /\ ~AddedAsSource(brevs, self, old)

\* ---------------------------------------------------------------------- C25
\* rev_info is the first branch-rev of a branch: it comes after the HEAD the
\* branch was made with, which has no tree and no commit
FirstBranchRev(h, rev_info) ==
    /\ h[rev_info].prev_rev # 0
    /\ h[rev_info].index_seq = 0
    /\ h[h[rev_info].prev_rev].prev_rev = 0
    /\ h[h[rev_info].prev_rev].tree = 0
    /\ h[h[rev_info].prev_rev].commit = 0

\* the copy source of the first branch-rev: the source requested first, when
\* the directory is added; it is the revision of another branch that is not a
\* child branch merged to this one
CopySource(h, rev_info) == Pending(h, rev_info)[1][2]

HasCopySource(h, rev_info) ==
    /\ FirstBranchRev(h, rev_info)
    /\ Pending(h, rev_info) # <<>>
    /\ merge_parent(h[CopySource(h, rev_info)].branch) # h[rev_info].branch

\* the commit of rev_info is the commit of source, or has it as first parent
JoinsCommit(h, cs, rev_info, source) ==
    \/ h[rev_info].commit = h[source].commit
    \/ /\ h[rev_info].commit # 0
       /\ cs[h[rev_info].commit].parents # <<>>
       /\ cs[h[rev_info].commit].parents[1] = h[source].commit

\* finalize_commit of the first branch-rev whose first parent is the revision
\* of another branch joins the commit of that revision, if it has one
FirstCommitJoins ==
    p_pc'.op = "finalize"
    /\ FirstBranchRev(brevs, p_pc'.self)
    /\ brevs[p_pc'.self].parents # <<>>
    /\ brevs[brevs[p_pc'.self].parents[1]].commit # 0
        => JoinsCommit(brevs', commits', p_pc'.self, brevs[p_pc'.self].parents[1])

\* C25 as stated: when the directory of a new branch is added by copy from the
\* root of a branch at revision r, the branch-rev of the source at r becomes a
\* parent of the first branch-rev of the new branch, the first one, so that the
\* commit of the first branch-rev joins the commit of the source for r.
C25_CopyParent ==
    [][/\ p_pc'.op = "prepare" /\ HasCopySource(brevs, p_pc'.self)
           => /\ brevs'[p_pc'.self].parents # <<>>
              /\ brevs'[p_pc'.self].parents[1] = CopySource(brevs, p_pc'.self)
       /\ FirstCommitJoins]_vars

\* C25 amended: when the directory of a new branch is added by copy from the
\* root of a branch at revision r and no further merge or copy source is
\* requested for the first branch-rev of the new branch, the branch-rev of the
\* source at r becomes its first parent, so that the commit of the first
\* branch-rev joins the commit of the source for r.
C25_OnlyCopyParent ==
    [][/\ p_pc'.op = "prepare" /\ HasCopySource(brevs, p_pc'.self)
          /\ Len(Pending(brevs, p_pc'.self)) = 1
           => /\ brevs'[p_pc'.self].parents # <<>>
              /\ brevs'[p_pc'.self].parents[1] = CopySource(brevs, p_pc'.self)
       /\ FirstCommitJoins]_vars

\* the first branch-rev of a branch has a commit of its own whose first parent
\* is the commit of the revision of another branch it was copied from
C25_Witness ==
    /\ p_pc.op = "finalize"
    /\ FirstBranchRev(brevs, p_pc.self)
    /\ Len(Pending(brevs, p_pc.self)) = 1
    /\ Len(commits) > 0
    /\ brevs[p_pc.self].commit = Len(commits)
    /\ brevs[p_pc.self].parents # <<>>
    /\ brevs[brevs[p_pc.self].parents[1]].branch # brevs[p_pc.self].branch
    /\ commits[Len(commits)].parents # <<>>
    /\ commits[Len(commits)].parents[1] = brevs[brevs[p_pc.self].parents[1]].commit

\* ---------------------------------------------------------------- C26
\* a revision of branch 1 is prepared whose mergeinfo difference adds
\* revisions for the directory of the source branch
DeltaStep == merge_pc' # merge_pc /\ merge_pc'.added # {}

\* the source revision of the last added revision, 0 when it is not present
RevToMerge == branch_get_revision(branches[merge_pc'.merged_branch],
                                  SetMax(merge_pc'.added))

\* the revision of the source branch that is merged already, or 0
MergedBefore ==
    get_merged_revision(brevs, merge_pc'.self, merge_pc'.merged_branch,
                        brevs[RevToMerge].index_seq)

\* the prepared revisions of a branch
BranchRevs(b) == {i \in 1..Len(brevs) : brevs[i].branch = b /\ brevs[i].rev # 0}

\* the source revisions up to the one to merge that are not merged yet
UnmergedRevs ==
    {i \in BranchRevs(merge_pc'.merged_branch) :
        /\ brevs[i].rev <= brevs[RevToMerge].rev
        /\ MergedBefore = 0 \/ brevs[i].rev > brevs[MergedBefore].rev}

\* the revision changes only files that ignore_unmerged matches
OnlyIgnored(i) ==
    ordinary_file(brevs[i].tree) = ordinary_file(brevs[brevs[i].prev_rev].tree)

\* the revision modified the directory of the branch
ModifiedPath(i) == brevs[i].tree # brevs[brevs[i].prev_rev].tree

\* the parents, of the source branch, of the prepared revision
SourceParents ==
    {p \in Range(brevs'[merge_pc'.self].parents) :
        brevs'[p].branch = merge_pc'.merged_branch}

\* the parents requested before the mergeinfo difference is processed
PendingBefore ==
    IF brevs[merge_pc'.self].revisions_to_merge = <<>> THEN {}
    ELSE {brevs[merge_pc'.self].revisions_to_merge[1][k][2] :
              k \in 1..Len(brevs[merge_pc'.self].revisions_to_merge[1])}

AlreadyMerged ==
    /\ MergedBefore # 0
    /\ \A i \in UnmergedRevs :
           ~brevs[i].any_changes_present /\ Len(brevs[i].parents) < 2

\* the source revision at which the prepared branch was last merged into the
\* source branch, or 0
MergedAt ==
    LET last == walk_back_empty_revs(brevs, RevToMerge)
        key == <<brevs[merge_pc'.self].branch, brevs[merge_pc'.self].index_seq>>
    IN  IF DictHas(brevs[last].merged_revisions, key)
        THEN DictGet(brevs[last].merged_revisions, key)[2]
        ELSE 0

\* the merged revisions of the source directory in the previous mergeinfo
PrevMerged == rev_mergeinfo[brevs[merge_pc'.self].prev_rev]

\* the merge can be recreated
RecreateMerge ==
    /\ recreate_merges
    /\ \A rev \in PrevMerged : rev < brevs[walk_back_empty_revs(brevs, RevToMerge)].rev
    /\ \A i \in UnmergedRevs :
           /\ MergedAt # 0 => brevs[i].rev > brevs[MergedAt].rev
           /\ brevs[i].rev \notin merge_pc'.added
           => OnlyIgnored(i)

CherryPicked ==
    /\ merge_pc.added # {}
    /\ cherry_pick_revs[merge_pc.self] # <<>>

\* ---------------------------------------------------------------- C27
\* finalize_commit of the branch-rev p_pc'.self runs in this step
FinalizeStep ==
    /\ p_pc'.op = "finalize"
    /\ ~brevs[p_pc'.self].done
    /\ brevs'[p_pc'.self].done

\* s is a branch-rev before y on the branch of y
RECURSIVE Earlier(_, _, _)
Earlier(h, s, y) ==
    IF h[y].prev_rev = 0 THEN FALSE
    ELSE h[y].prev_rev = s \/ Earlier(h, s, h[y].prev_rev)

\* the branch-rev made a commit of its own
OwnCommit(cp, i) == \E k \in 1..Len(cp) : cp[k].by = i

\* a branch-rev that matches the SkipCommit specification, has changes and
\* a log message
SkippedWithChanges(s) ==
    /\ brevs[s].skip_commit
    /\ brevs[s].any_changes_present
    /\ revision_log[brevs[s].rev] # 0

\* nothing requires a commit of the branch-rev: it is no parent of a merge,
\* not the last revision of its branch, and has one parent at most
NotRequired(s) ==
    /\ ~brevs[s].need_commit
    /\ Len(brevs[s].parents) <= 1

\* the skipped branch-revs whose changes the commit of y is the first to
\* hold
SkippedBefore(y) ==
    {s \in 1..Len(brevs) :
        /\ Earlier(brevs, s, y)
        /\ brevs[s].done
        /\ SkippedWithChanges(s)
        /\ \A i \in 1..Len(brevs) :
               i = s \/ (Earlier(brevs, s, i) /\ Earlier(brevs, i, y))
                   => ~OwnCommit(commit_props, i)}

\* C27: a branch-rev that matches a SkipCommit rule, with changes and a log
\* message and no commit required of it, makes no commit of its own: its
\* revision properties are carried into props_list of the next branch-rev
\* of the branch, and the next commit made on the branch has its log, with
\* its author and date
C27_SkipCommitCarried ==
    [][FinalizeStep =>
          /\ SkippedWithChanges(p_pc'.self) /\ NotRequired(p_pc'.self)
                 => /\ commits' = commits
                    /\ \E k \in 1..Len(props_list'[brevs[p_pc'.self].next_rev]) :
                           props_list'[brevs[p_pc'.self].next_rev][k].revision
                               = brevs[p_pc'.self].rev
          /\ Len(commits') > Len(commits)
                 => \A s \in SkippedBefore(p_pc'.self) :
                        /\ brevs[s].rev \in commit_props'[Len(commit_props')].logs
                        /\ commit_props'[Len(commit_props')].revision = brevs[s].rev]_vars

\* ---------------------------------------------------------------- C28
\* the key of the stagelist item a line of update-index was written for
LineKey(line) == stagelist_key(line.item.obj, line.git_env, line.item.path)

\* the id obtained for the key of the item: the one the sha1 map of the
\* earlier run has for it, else the one hash_object gives for the item
IdOfKey(line) ==
    IF DictHas(prev_sha1_map, LineKey(line))
    THEN DictGet(prev_sha1_map, LineKey(line))
    ELSE hash_object([data |-> line.item.obj, path |-> line.item.path,
                      fmt |-> blob_fmt(line.item.obj), git_env |-> line.git_env])

\* hash_object has run at most once for a key
HashedOnce ==
    \A m, n \in 1..Len(hash_work) :
        m # n /\ hash_work[m].result # <<>> /\ hash_work[n].result # <<>>
            => hash_work[m].sha1 # hash_work[n].sha1

\* C28: the id staged for a blob at a path is the id obtained, from
\* hash_object or from the cache, for the key (object fingerprint, branch
\* gitattributes fingerprint, formatter tag, path) of that very stagelist
\* item, and hash_object runs at most once for a key
C28_StagedIdOfKey ==
    /\ \A i \in 1..Len(update_index) : update_index[i].sha1 = IdOfKey(update_index[i])
    /\ HashedOnce

\* ---------------------------------------------------------------- C29
\* an exception raised during dump reading or history processing leaves
\* load() of a project_history_tree with a Git repository in this step
RaisedInProcessing ==
    /\ target_repo
    /\ l_pc \in {"reading", "loaded", "executed"}
    /\ l_pc' = "raised"

\* C29: when load() with a target repository ends by an exception raised
\* during dump reading or history processing, shutdown has run before the
\* exception leaves load(): both worker pools are shut down with their
\* pending futures cancelled, the temporary working directory is removed,
\* and commit_refs_update has not been called, no ref update is written
C29_ShutdownOnException ==
    [][RaisedInProcessing =>
          /\ \A p \in {"futures_executor", "write_tree_executor"} :
                 /\ executors'[p].shut
                 /\ executors'[p].pending = 0
                 /\ executors'[p].cancelled = executors[p].cancelled + executors[p].pending
          /\ git_working_directory' = "removed"
          /\ git_repo'.commits = 0
          /\ git_repo'.refs = <<>>]_vars

\* a history parse error has left load() with a future cancelled and ref
\* updates still queued
C29_Witness ==
    /\ target_repo
    /\ l_pc = "raised"
    /\ l_exc = "Exception_history_parse"
    /\ l_raised_at = "reading"
    /\ executors["futures_executor"].cancelled > 0
    /\ executors["write_tree_executor"].shut
    /\ git_repo.queue # <<>>
    /\ git_working_directory = "removed"

\* ---------------------------------------------------------------- C30
\* read_revisions has found the dump file malformed: the exception of one
\* of its checks has ended it
DumpParseError == rd_pc = "raised"

\* C30: a script exits with the status 1 when the input dump file does not
\* exist, 128 on any dump-parse, history-parse or configuration-parse
\* error, 130 on a keyboard interrupt, and 0 when main() returns
C30_ExitStatus ==
    e_pc = "exited" =>
        /\ e_exc = "FileNotFoundError" => e_status = 1
        /\ (DumpParseError \/ e_exc \in {"Exception_svn_parse", "Exception_history_parse",
                                         "Exception_cfg_parse"}) => e_status = 128
        /\ e_exc = "KeyboardInterrupt" => e_status = 130
        /\ e_exc = "" => e_status = 0


\* ---------------------------------------------------------------------- C31
\* the variables an item of the variable v refers to
VarRefs(v) ==
    {w \in VarNames : \E k \in 1..Len(replacement_vars[v]) :
         \E i \in 1..Len(replacement_vars[v][k]) : replacement_vars[v][k][i] = w}

\* the variables referred to from the variables of S, S included
RefStep(S) == S \cup UNION {VarRefs(v) : v \in S}

RefClosure(S) == RefStep(RefStep(RefStep(S)))

\* the variables the pattern refers to, directly or through other variables
PatternRefs == RefClosure({w \in VarNames : \E i \in 1..Len(c_src) : c_src[i] = w})

\* v refers to itself, directly or through other variables
SelfReferring(v) == v \in RefClosure(VarRefs(v))

C31_Rejected ==
    /\ c_pc = "raised" =>
          /\ c_exc.type = "Exception_cfg_parse"
          /\ c_exc.msg \in {"not defined", "recursively referred"}
          /\ c_exc.key \in PatternRefs
          /\ c_exc.msg = "not defined" <=> replacement_vars[c_exc.key] = <<>>
          /\ c_exc.msg = "recursively referred" => SelfReferring(c_exc.key)
    /\ c_pc = "done" =>
          /\ c_exc.type = ""
          /\ \A v \in PatternRefs : replacement_vars[v] # <<>> /\ ~SelfReferring(v)

\* C31: the expansion of the variables of a pattern always ends; it ends
\* with a configuration-parse error, and no other, when the pattern refers,
\* directly or through other variables, to a variable that is not defined
\* (not defined) or to one that refers to itself directly or through
\* other variables (recursively referred), and without an error otherwise.
C31_ExpansionTerminates ==
    /\ []C31_Rejected
    /\ (c_pc = "expanding") ~> (c_pc \in {"done", "raised"})

\* B, referred to by the pattern through A, refers back to A
C31_Witness ==
    /\ c_pc = "raised"
    /\ c_exc.msg = "recursively referred"
    /\ c_exc.key = "A"
    /\ "A" \notin VarRefs("A")
    /\ c_src = <<"A">>


\* ---------------------------------------------------------------------- C32
\* the hidden flag of o and of every object below it is h
RECURSIVE AllHidden(_, _, _, _)
AllHidden(st, o, h, n) ==
    /\ st.objs[o].hidden = h
    /\ n > 0 => \A i \in Range(st.objs[o].items) : AllHidden(st, st.its[i].object, h, n - 1)

\* the child object of each entry of o
Children(st, o) == [k \in 1..Len(st.objs[o].items) |-> st.its[st.objs[o].items[k]].object]

\* the directories hide is called for: any to hide, a hidden one to un-hide
HideCalls == {<<o, h>> \in (1..Len(objs)) \X BOOLEAN : is_dir(St, o) /\ (h \/ objs[o].hidden)}

\* hide returns another object when the flag changes
C32_HideNew ==
    \A c \in HideCalls :
        LET r == hide(St, c[1], c[2])
        IN  r.st.err = "" /\ objs[c[1]].hidden # c[2] => r.res # c[1] /\ r.res > Len(objs)

\* the flags of the result and of all below it are the requested ones
C32_HideFlags ==
    \A c \in HideCalls :
        LET r == hide(St, c[1], c[2])
        IN  r.st.err = "" => AllHidden(r.st, r.res, c[2], Len(r.st.objs))

\* C32: svn_tree.hide, called to hide a directory or to un-hide a hidden
\* directory, returns a new tree whose flag and the flag of every object below
\* it are the requested value, and the tree it was called for still refers to
\* the same child objects, which have the hidden flags they had.
C32_HideLeavesSource ==
    \A c \in HideCalls :
        LET r == hide(St, c[1], c[2])
        IN  r.st.err = "" =>
                /\ objs[c[1]].hidden # c[2] => r.res # c[1] /\ r.res > Len(objs)
                /\ AllHidden(r.st, r.res, c[2], Len(r.st.objs))
                /\ Children(r.st, c[1]) = Children(St, c[1])
                /\ Content(r.st, c[1], Len(r.st.objs)) = Content(St, c[1], Len(objs))


\* ---------------------------------------------------------------------- C33
\* the revisions a mergeinfo has for a path
MiRevs(m, path) ==
    IF DictHas(m.paths_dict, path) THEN RevsOf(DictGet(m.paths_dict, path)) ELSE {}

\* every revision of every path of a is one b has for the path
MiLeq(a, b) ==
    \A i \in 1..Len(a.paths_dict) :
        RevsOf(a.paths_dict[i][2]) \subseteq MiRevs(b, a.paths_dict[i][1])

\* the same of the contents of two tree_mergeinfo, key by key
TreeLeq(A, B) == \A e \in A : \E f \in B : f[1] = e[1] /\ MiLeq(e[2], f[2])

\* the source branch-revs the difference names: the branch-rev of the branch
\* of a path at the end of the ranges added for it
NamedSources(diff) ==
    {md_find_branch(diff.paths_dict[i][1]) : i \in 1..Len(diff.paths_dict)}
    \cap {b \in MdSources :
             \E i \in 1..Len(diff.paths_dict) :
                 /\ md_find_branch(diff.paths_dict[i][1]) = b
                 /\ LET r == diff.paths_dict[i][2]
                    IN  md_get_revision(b, r[Len(r)][2]) # 0}

\* adding the tree_mergeinfo of the source to the previous tree-mergeinfo
\* gives the previous mergeinfo nothing it does not have
CannotEnlarge(b) ==
    LET c == tm_copy(MdHeap, md_prev_tm)
        r == add_tree_mergeinfo(c.h, c.res, md_src[b].tree_mergeinfo)
        m == tm_build_mergeinfo(r.h, c.res)
    IN  MiLeq(m.h.mis[m.res], md_mis[md_prev_mi])

\* another pass is made only after a pass that enlarged the previous
\* tree-mergeinfo
C33_PassEnlarged ==
    md_pc = "loop" /\ md_pass.n > 0 =>
        /\ TreeLeq(md_pass.before, TreeContent(MdHeap, md_prev_tm))
        /\ ~TreeLeq(TreeContent(MdHeap, md_prev_tm), md_pass.before)

\* the loop has ended with the difference against the previous mergeinfo
C33_ExitDiff ==
    md_pc = "delta" /\ md_pass.n > 0 =>
        md_diff = get_diff(md_mis[md_revs[MdSelf].mergeinfo], md_mis[md_prev_mi])

\* no source branch-rev the loop has not found merged can enlarge it
C33_ExitFixedPoint ==
    md_pc = "delta" /\ md_pass.n > 0 =>
        \A b \in NamedSources(md_diff) \ md_merged : CannotEnlarge(b)

\* a pass adds to the previous tree-mergeinfo a revision of a path under a
\* key, so there are no more passes than such triples, and one
C33_PassesBounded ==
    md_pass.n <= Cardinality({"", ".."} \X {1, 2, 3} \X (1..2)) + 1

\* C33: the loop of process_merge_delta ends after a bounded number of
\* passes; another pass is made only when the pass before it has strictly
\* enlarged the previous tree-mergeinfo; when the loop has ended, the
\* difference is the one against the previous mergeinfo, which no source
\* branch-rev the difference names (and the loop does not find merged
\* already) can enlarge.
C33_ReevaluationLoop ==
    /\ C33_PassesBounded
    /\ C33_PassEnlarged
    /\ C33_ExitDiff
    /\ C33_ExitFixedPoint


\* ---------------------------------------------------------------------- C34
\* the tree_mergeinfo object and the mergeinfo object of the branch-rev r
\* have after the step the contents they had before it
MergeinfoKept(r) ==
    /\ TreeContent([mis |-> md_mis', tms |-> md_tms'], md_revs[r].tree_mergeinfo)
           = TreeContent(MdHeap, md_revs[r].tree_mergeinfo)
    /\ DictEq(md_mis'[md_revs[r].mergeinfo].paths_dict, md_mis[md_revs[r].mergeinfo].paths_dict)

\* the branch-revs that have a successor keep theirs
PredecessorsKept == \A r \in 1..(Len(md_revs) - 1) : MergeinfoKept(r)

\* C34: no step of the processing of a revision (a changed svn:mergeinfo,
\* the mergeinfo of a copy source or of a merged branch, the choice of the
\* staging base) changes the contents of the tree_mergeinfo or of the
\* mergeinfo of a branch-rev that has a successor.
C34_PredecessorMergeinfoKept == [][PredecessorsKept]_vars

\* the same of the steps before the loop of process_merge_delta
C34_KeptBeforeLoop ==
    [][(md_pc \in {"changes", "changed"} /\ md_pc' # "changes") => PredecessorsKept]_vars

\* the same of the passes of the loop
C34_KeptInLoop == [][(md_pc = "loop") => PredecessorsKept]_vars

\* the same of the choice of the staging base
C34_KeptInStagingBase == [][(md_pc = "delta") => PredecessorsKept]_vars


\* ---------------------------------------------------------------------- C35
\* the revision number merged_revisions of the branch-rev r records for key,
\* 0 when it has no such key
MergedRev(h, r, key) ==
    IF DictHas(h[r].merged_revisions, key)
    THEN h[DictGet(h[r].merged_revisions, key)[1]].rev
    ELSE 0

MergedKeys(h, r) ==
    {h[r].merged_revisions[i][1] : i \in 1..Len(h[r].merged_revisions)}

\* a branch-rev has the keys of its prev_rev, each with a merged revision
\* that is not lower
C35_ChainMonotone ==
    \A r \in 1..Len(brevs) :
        brevs[r].prev_rev # 0 =>
            \A key \in MergedKeys(brevs, brevs[r].prev_rev) :
                /\ key \in MergedKeys(brevs, r)
                /\ MergedRev(brevs, r, key) >= MergedRev(brevs, brevs[r].prev_rev, key)

\* a step that changes the map of a branch-rev leaves the map of its
\* prev_rev as it was
PredecessorMapKept ==
    \A r \in 1..Len(brevs) :
        (/\ brevs[r].prev_rev # 0
         /\ brevs'[r].merged_revisions # brevs[r].merged_revisions)
            => brevs'[brevs[r].prev_rev].merged_revisions
                   = brevs[brevs[r].prev_rev].merged_revisions

\* C35: along the prev_rev chain of a branch, merged_revisions never loses a
\* key and the revision number merged for a key never decreases from a
\* branch-rev to its successor; and adding an entry to the map of a
\* branch-rev never changes the map of its predecessor.
C35_MergedRevisionsMonotone ==
    /\ []C35_ChainMonotone
    /\ [][PredecessorMapKept]_vars

\* a branch-rev has merged a later revision of a branch than its prev_rev
\* has, and a branch that its prev_rev has not merged
C35_Witness ==
    \E r \in 1..Len(brevs) :
        /\ brevs[r].prev_rev # 0
        /\ \E key \in MergedKeys(brevs, brevs[r].prev_rev) :
               MergedRev(brevs, r, key) > MergedRev(brevs, brevs[r].prev_rev, key)
        /\ MergedKeys(brevs, r) # MergedKeys(brevs, brevs[r].prev_rev)


\* ---------------------------------------------------------------------- C36
\* the prev_rev of a branch-rev has it as next_rev and is of the same branch
\* and index_seq
ChainLinked(h, r) ==
    h[r].prev_rev # 0 =>
        /\ h[h[r].prev_rev].next_rev = r
        /\ h[h[r].prev_rev].branch = h[r].branch
        /\ h[h[r].prev_rev].index_seq = h[r].index_seq

\* C36: in every reachable state every branch-rev R with a prev_rev P has
\* P.next_rev = R, P.branch = R.branch and P.index_seq = R.index_seq, and
\* the HEAD of every branch is the prev_rev of the stage of the branch.
C36_ChainConsistent ==
    /\ \A r \in 1..Len(brevs) : ChainLinked(brevs, r)
    /\ \A b \in Branches : brevs[branches[b].stage].prev_rev = branches[b].HEAD

\* a branch deleted and recreated has been prepared again: its HEAD has a
\* prev_rev of the new index_seq, and the deleted revision is still linked
\* to the HEAD it had
C36_Witness ==
    \E b \in Branches :
        /\ branches[b].index_seq > 0
        /\ brevs[branches[b].HEAD].prev_rev # 0
        /\ brevs[branches[b].HEAD].rev # 0
        /\ \E k \in 1..Len(deleted_revs) :
               /\ brevs[deleted_revs[k]].branch = b
               /\ brevs[deleted_revs[k]].prev_rev # 0
               /\ brevs[deleted_revs[k]].index_seq < branches[b].index_seq


\* ---------------------------------------------------------------------- C37
\* the branches a branch is merged to, at any depth
RECURSIVE MergeAncestors(_)
MergeAncestors(b) ==
    IF nested_merge_parent(b) = 0 THEN {}
    ELSE {nested_merge_parent(b)} \cup MergeAncestors(nested_merge_parent(b))

\* the branches changed in the last revision applied, and their merge parents
ToPrepare ==
    (Range(a_changed) \cup {nested_merge_parent(b) : b \in Range(a_changed)}) \ {0}

\* prepare_commit was called once for each of them and for no other branch
C37_PreparedOnce ==
    /\ Range(a_prepared) = ToPrepare
    /\ \A i \in 1..Len(a_prepared), j \in 1..Len(a_prepared) :
           a_prepared[i] = a_prepared[j] => i = j

\* the merge parent of a changed branch was prepared after every changed
\* branch merged to it at any depth
C37_ParentAfterChildren ==
    \A i \in 1..Len(a_prepared), j \in 1..Len(a_prepared) :
        (/\ a_prepared[j] \in Range(a_changed)
         /\ a_prepared[i] \in MergeAncestors(a_prepared[j])
         /\ \E c \in Range(a_changed) : nested_merge_parent(c) = a_prepared[i])
            => j < i

\* the revisions of the successive branch-revs of a branch strictly increase
C37_RevsIncrease ==
    \A b \in OrderBranches : \A i \in 1..(Len(a_revs[b]) - 1) :
        a_revs[b][i] < a_revs[b][i + 1]

\* C37: while a revision is applied, prepare_commit is called exactly once
\* for each branch changed in it and for each merge parent of such a branch;
\* a branch that is the merge parent of a changed branch is prepared after
\* every changed branch that is merged to it, at any depth; and so the
\* revision numbers of the successive branch-revs of a branch strictly
\* increase.
C37_PrepareOrder ==
    /\ C37_PreparedOnce
    /\ C37_ParentAfterChildren
    /\ C37_RevsIncrease

\* the same as long as no branch nested two deep has been changed
C37_PrepareOrderFlat ==
    (\A b \in OrderBranches :
         MergeAncestors(b) \subseteq {nested_merge_parent(b)} \/ a_revs[b] = <<>>)
        => C37_PrepareOrder


\* ---------------------------------------------------------------------- C38
\* the revision being applied: the last one of the table
current_rev == Len(revisions) - 1

\* the copy source of the node is of the revision being applied
SourceCurrent(node) == node.copyfrom_rev = current_rev

\* the revision of the copy source has not been loaded
SourceBeyond(node) == node.copyfrom_rev > current_rev

\* the revision of the copy source is one the dump has left out
SourceInGap(node) ==
    node.copyfrom_rev < current_rev /\ revisions[node.copyfrom_rev + 1] = NoRevision

\* a node that copies from a revision the dump has left out is rejected
C38_GapRejected ==
    pc = "apply" =>
        \A node \in GapCopyNodes :
            SourceInGap(node) =>
                Exc(apply_node(St, revisions, node, revision_tree)) = "Exception_history_parse"

\* a node that copies from a revision not loaded yet is rejected
C38_BeyondRejected ==
    pc = "apply" =>
        \A node \in GapCopyNodes :
            SourceBeyond(node) =>
                Exc(apply_node(St, revisions, node, revision_tree)) = "Exception_history_parse"

\* a node that copies from the revision being applied is rejected
C38_CurrentRejected ==
    pc = "apply" =>
        \A node \in GapCopyNodes :
            SourceCurrent(node) =>
                Exc(apply_node(St, revisions, node, revision_tree)) = "Exception_history_parse"

\* C38: every copy source is of the finalized tree of a revision strictly
\* earlier than the one being applied: a node whose copyfrom revision is
\* the current revision, is greater than the last loaded revision or falls
\* into a gap of the revision table is rejected with
\* Exception_history_parse.
C38_CopySourceEarlier ==
    /\ C38_CurrentRejected
    /\ C38_BeyondRejected
    /\ C38_GapRejected


\* ---------------------------------------------------------------------- C39
\* the revisions that get_revision is asked for
LookupRevs == (0 - 1)..(MaxLookupRev + 1)

\* the branch-revs of branch b that were given an SVN revision: the ones of
\* prepare_commit and of delete
Recorded(b) ==
    {o \in 1..Len(brevs) : brevs[o].branch = b /\ brevs[o].rev >= 1}

\* the least revision with a record of branch b
FirstRecorded(b) ==
    CHOOSE r \in 1..MaxLookupRev :
        /\ \E o \in Recorded(b) : brevs[o].rev = r
        /\ \A o \in Recorded(b) : brevs[o].rev >= r

\* the record of branch b at the greatest revision up to r; of a deletion and
\* the branch-rev added in the same revision, the one made last
LatestRecorded(b, r) ==
    CHOOSE o \in Recorded(b) :
        /\ brevs[o].rev <= r
        /\ \A q \in Recorded(b) :
               brevs[q].rev <= r =>
                   \/ brevs[q].rev < brevs[o].rev
                   \/ brevs[q].rev = brevs[o].rev /\ q <= o

\* C39: for a branch with recorded revisions, get_revision(r) with r at or
\* above the first revision of the branch returns the branch-rev recorded at
\* the greatest revision not exceeding r, across deletions and re-creations;
\* with 0 < r below the first revision it returns nothing; with r <= 0 it
\* returns the current HEAD.
C39_GetRevision ==
    \A b \in Branches :
        branches[b].revisions # <<>> =>
            /\ Recorded(b) # {}
            /\ \A r \in LookupRevs :
                   branch_get_revision(branches[b], r) =
                       IF r <= 0 THEN branches[b].HEAD
                       ELSE IF r < FirstRecorded(b) THEN 0
                       ELSE LatestRecorded(b, r)

\* the branch was added after revision 1, left alone in a later revision,
\* and then deleted and added again in one revision
C39_Witness ==
    \E b \in LookupBranches :
        /\ p_rev = 4
        /\ Recorded(b) # {}
        /\ FirstRecorded(b) = 2
        /\ \A o \in Recorded(b) : brevs[o].rev # 3
        /\ \E k \in 1..Len(deleted_revs) :
               /\ brevs[deleted_revs[k]].branch = b
               /\ brevs[deleted_revs[k]].rev = 4
               /\ LatestRecorded(b, 4) > deleted_revs[k]
        /\ branch_get_revision(branches[b], 1) = 0
        /\ brevs[branch_get_revision(branches[b], 3)].rev = 2
        /\ branch_get_revision(branches[b], 0) = branches[b].HEAD


\* ---------------------------------------------------------------------- C40
\* the record has a line with the tag
HasLine(tag) == \E k \in 1..Len(header_lines) : header_lines[k][1] = tag

\* the value of the last line with the tag
LastValue(tag) ==
    LET k == CHOOSE k \in 1..Len(header_lines) :
                 /\ header_lines[k][1] = tag
                 /\ \A j \in (k + 1)..Len(header_lines) : header_lines[j][1] # tag
    IN  header_lines[k][2]

\* the flag of the tag
Flag(tag) == IF tag = "Text-delta" THEN text_is_delta ELSE props_is_delta

\* a line with the value true yields the flag true
C40_TrueIsTrue ==
    n_pc # "raised" =>
        \A tag \in DeltaTags :
            HasLine(tag) /\ LastValue(tag) = "true" => Flag(tag) = TRUE

\* a line with the value false yields the flag false
C40_FalseIsFalse ==
    n_pc # "raised" =>
        \A tag \in DeltaTags :
            HasLine(tag) /\ LastValue(tag) = "false" => Flag(tag) = FALSE

\* a line with another value raises the parse error, and nothing else does
C40_OtherRaises ==
    /\ n_pc = "raised" <=>
           /\ header_lines # <<>>
           /\ header_lines[Len(header_lines)][2] \notin {"true", "false"}
    /\ n_pc = "raised" => n_exc = "Exception_svn_parse" /\ pc = "failed"
    /\ \A k \in 1..(Len(header_lines) - 1) : header_lines[k][2] \in {"true", "false"}

\* with Text-delta: false the text of the node is taken as literal text, and
\* with Prop-delta: false its property block as a full block
C40_FalsePayload ==
    n_pc = "node" /\ pc = "apply" =>
        \A node \in FlagNodes :
            /\ HasLine("Text-delta") /\ LastValue("Text-delta") = "false" =>
                   apply_node(St, revisions, read_node(node, text_is_delta, props_is_delta),
                              revisions[Len(revisions)].tree)
                       = apply_node(St, revisions, read_node(node, FALSE, props_is_delta),
                                    revisions[Len(revisions)].tree)
            /\ HasLine("Prop-delta") /\ LastValue("Prop-delta") = "false" =>
                   apply_node(St, revisions, read_node(node, text_is_delta, props_is_delta),
                              revisions[Len(revisions)].tree)
                       = apply_node(St, revisions, read_node(node, text_is_delta, FALSE),
                                    revisions[Len(revisions)].tree)

\* C40: a node header Text-delta or Prop-delta with the value false yields
\* the flag false (the payload is then treated as literal text or as a full
\* property block), the value true yields the flag true, and any other value
\* raises a dump-parse error.
C40_DeltaFlags ==
    /\ C40_FalseIsFalse
    /\ C40_FalsePayload
    /\ C40_TrueIsTrue
    /\ C40_OtherRaises

====
